---------------------------- MODULE Spec2Model ----------------------------
(***************************************************************************)
(* Model of the Lenovo hardware-basket parsers of the Archer repository:   *)
(* the row-grouping loop of CorrectedLenovoParser, the header locator and  *)
(* row loop of EnhancedLenovoParser, and the leaf functions they rest on   *)
(* (price extraction, component classification, basket-item enrichment).   *)
(*                                                                         *)
(* Conventions.  Python strings are TLA+ strings.  A spreadsheet cell is a *)
(* record [num, n, s]: a numeric cell (num = TRUE) holds n, a text cell    *)
(* holds s; the empty cell is the text cell "".  A Python float is an      *)
(* integer number of hundredths (2850.0 is 285000), so the inputs of the   *)
(* model carry at most two fraction digits.  None is the record NoFloat.   *)
(* Row and column indices are 0-based as in the code; Row(d, i) and        *)
(* Iloc(row, c) do the 1-based access.                                     *)
(***************************************************************************)
EXTENDS Integers, Sequences, FiniteSets, TLC

VARIABLES
    df,                \* the sheet: a sequence of rows, each a sequence of cells
    idx,               \* loop index of the row loop (0-based row number)
    pc,                \* position of the running parse
    now,               \* the wall clock read by datetime.now()
    corrected_models,  \* CorrectedLenovoParser: finished models
    current_server,    \* CorrectedLenovoParser: <<>> (None) or <<model>>
    returned,          \* value returned by the parse, <<>> until it returns
    first_run,         \* value returned by an earlier run on the same sheet
    run,               \* number of the run in progress
    header_row,        \* EnhancedLenovoParser: analysis['header_row'], -1 is None
    models,            \* EnhancedLenovoParser: finished models
    current_model,     \* EnhancedLenovoParser: <<>> (None) or <<model>>
    analysis,          \* EnhancedLenovoParser: the columns found (-1 is None)
    outcome,           \* which return statement the parse left through
    call,              \* leaf specification: the call made
    ret,               \* leaf specification: its result
    item,              \* enrichment: the basket item handed in
    enriched,          \* enrichment: <<>> or <<the item returned>>
    invocations,       \* concurrent parses: the local variables of each call
    settings,          \* LLMRouter.settings (fixed once the router exists)
    instances,         \* LLMRouter._instances: provider -> adapter, 0 if none
    created,           \* number of adapters constructed so far
    result,            \* LLMRouter.get_adapter: the last call and its outcome
    current_lot,       \* prototype_lenovo_parser: <<>> (None) or <<lot>>
    current_components,\* prototype_lenovo_parser: components of the lot
    enhanced_items,    \* pipeline matching: the enriched items to match
    backend_models,    \* pipeline matching: the models the backend returned
    matched,           \* pipeline matching: matched_model of each item so far
    items,             \* analyze_field_completeness: the items handed in
    field_stats,       \* analyze_field_completeness: <<>> or <<the report>>
    api_models         \* generate_api_payload: the payload, <<>> until built

vars == <<df, idx, pc, now, corrected_models, current_server, returned,
          first_run, run, header_row, analysis, models, current_model,
          outcome, call, ret, item, enriched, invocations, settings,
          instances, created, result, current_lot, current_components,
          enhanced_items, backend_models, matched, items, field_stats,
          api_models>>

\* The variables of each part of the model.
enhancedVars == <<header_row, analysis, models, current_model, outcome>>
leafVars == <<call, ret, item, enriched>>
parVars == <<invocations>>
routerVars == <<settings, instances, created, result>>
protoVars == <<current_lot, current_components>>
pipelineVars == <<enhanced_items, backend_models, matched>>
reportVars == <<items, field_stats>>
payloadVars == <<api_models>>
otherVars == <<protoVars, pipelineVars, reportVars, payloadVars>>

-----------------------------------------------------------------------------
(* Bounds of the model. *)

MaxRows == 3
MaxClock == 1

-----------------------------------------------------------------------------
(* Strings. *)

UpperChars == "ABCDEFGHIJKLMNOPQRSTUVWXYZ"
LowerChars == "abcdefghijklmnopqrstuvwxyz"
DigitChars == "0123456789"

CharAt(s, i) == SubSeq(s, i, i)

\* Lookup tables: upper-case letter to lower-case letter, digit to value.
UpperToLower ==
    [c \in {CharAt(UpperChars, i) : i \in 1..26} |->
        CharAt(LowerChars, CHOOSE i \in 1..26 : CharAt(UpperChars, i) = c)]
DigitToVal ==
    [c \in {CharAt(DigitChars, i) : i \in 1..10} |->
        (CHOOSE i \in 1..10 : CharAt(DigitChars, i) = c) - 1]
UpperSet == DOMAIN UpperToLower
DigitSet == DOMAIN DigitToVal

IsUpper(c) == c \in UpperSet

LowerChar(c) == IF IsUpper(c) THEN UpperToLower[c] ELSE c

RECURSIVE Lower(_)
Lower(s) ==
    IF s = "" THEN ""
    ELSE LowerChar(CharAt(s, 1)) \o Lower(SubSeq(s, 2, Len(s)))

IsDigit(c) == c \in DigitSet

DigitVal(c) == DigitToVal[c]

IsSpace(c) == c = " "

\* Python's "kw in s".
Contains(s, kw) ==
    \E i \in 1..(Len(s) - Len(kw) + 1) : SubSeq(s, i, i + Len(kw) - 1) = kw

\* any(kw in s for kw in kws)
AnyIn(kws, s) == \E k \in 1..Len(kws) : Contains(s, kws[k])

RECURSIVE LStrip(_)
LStrip(s) ==
    IF s # "" /\ IsSpace(CharAt(s, 1)) THEN LStrip(SubSeq(s, 2, Len(s))) ELSE s

RECURSIVE RStrip(_)
RStrip(s) ==
    IF s # "" /\ IsSpace(CharAt(s, Len(s)))
    THEN RStrip(SubSeq(s, 1, Len(s) - 1)) ELSE s

Strip(s) == LStrip(RStrip(s))

\* Number of leading decimal digits of s.
RECURSIVE LeadingDigits(_)
LeadingDigits(s) ==
    IF s # "" /\ IsDigit(CharAt(s, 1))
    THEN 1 + LeadingDigits(SubSeq(s, 2, Len(s))) ELSE 0

\* Value of a string of decimal digits ("" is 0).
RECURSIVE DigitsVal(_)
DigitsVal(s) ==
    IF s = "" THEN 0
    ELSE DigitsVal(SubSeq(s, 1, Len(s) - 1)) * 10 + DigitVal(CharAt(s, Len(s)))

\* First index at which kw occurs in s, 0 when it does not (str.find + 1).
Find(s, kw) ==
    IF Contains(s, kw)
    THEN CHOOSE i \in 1..(Len(s) - Len(kw) + 1) :
            /\ SubSeq(s, i, i + Len(kw) - 1) = kw
            /\ \A j \in 1..(i - 1) : SubSeq(s, j, j + Len(kw) - 1) # kw
    ELSE 0

-----------------------------------------------------------------------------
(* Floats and cells. *)

NoFloat == [ok |-> FALSE, val |-> 0]
SomeFloat(v) == [ok |-> TRUE, val |-> v]

\* Hundredths of the fraction digits fr (at most two are significant here).
FracVal(fr) ==
    IF Len(fr) = 0 THEN 0
    ELSE IF Len(fr) = 1 THEN DigitVal(fr) * 10
    ELSE DigitsVal(SubSeq(fr, 1, 2))

\* float(s) on an unsigned literal: digits, optional point, digits.
UnsignedFloat(b) ==
    LET il == LeadingDigits(b)
        rest == SubSeq(b, il + 1, Len(b))
        hasPoint == rest # "" /\ CharAt(rest, 1) = "."
        fr == IF hasPoint THEN SubSeq(rest, 2, Len(rest)) ELSE ""
        fl == LeadingDigits(fr)
    IN  IF /\ il + fl >= 1
           /\ (hasPoint \/ rest = "")
           /\ fl = Len(fr)
        THEN SomeFloat(DigitsVal(SubSeq(b, 1, il)) * 100 + FracVal(fr))
        ELSE NoFloat

\* Python float(s) for a string: surrounding blanks and one sign are accepted,
\* anything else raises ValueError (NoFloat).
ParseFloat(s) ==
    LET t == Strip(s)
        signed == t # "" /\ CharAt(t, 1) \in {"-", "+"}
        u == UnsignedFloat(IF signed THEN SubSeq(t, 2, Len(t)) ELSE t)
    IN  IF u.ok /\ signed /\ CharAt(t, 1) = "-" THEN SomeFloat(0 - u.val) ELSE u

\* Python str(x) for a float x.
FloatStr(v) ==
    LET a == IF v < 0 THEN 0 - v ELSE v
        fr == a % 100
        frs == IF fr % 10 = 0 THEN ToString(fr \div 10)
               ELSE ToString(fr \div 10) \o ToString(fr % 10)
    IN  (IF v < 0 THEN "-" ELSE "") \o ToString(a \div 100) \o "." \o frs

Num(n) == [num |-> TRUE, n |-> n, s |-> ""]
Txt(s) == [num |-> FALSE, n |-> 0, s |-> s]
Empty == Txt("")

\* The cell after fillna(''): NaN cells are read as Empty already.
\* str(cell)
CellStr(c) == IF c.num THEN FloatStr(c.n) ELSE c.s

\* bool(cell): a number is true unless 0, a string unless empty.
Truthy(c) == IF c.num THEN c.n # 0 ELSE c.s # ""

Row(d, i) == d[i + 1]
Iloc(row, c) == row[c + 1]

-----------------------------------------------------------------------------
(* CorrectedLenovoParser: helpers. *)

\* Hard-coded sheet layout of parse_lenovo_correctly.
HeaderRowFixed == 3
part_col == 1
desc_col == 2
qty_col == 3
usd_price_col == 4
eur_price_col == 5

\* _safe_float: None for an empty cell and for anything float() rejects.
SafeFloat(val) ==
    IF Strip(CellStr(val)) = "" THEN NoFloat
    ELSE IF val.num THEN SomeFloat(val.n)
    ELSE ParseFloat(val.s)

server_indicators ==
    <<"smi1", "smi2", "sma1", "sma2", "mei1", "mei2", "mea1", "mea2",
      "hvi1", "hvi2", "hva1", "hva2", "vei1", "vei2", "vea1", "vea2",
      "voi1", "voi2", "voa1", "voa2", "dhc1", "dhc2">>

server_patterns ==
    <<"server", "- intel ", "- amd", "rack server", "lenovo", "thinksystem",
      "thinkagile">>

\* has_price of _is_main_server_entry.
HasPrice(row, price_col) ==
    /\ price_col < Len(row)
    /\ LET price_val == SafeFloat(Iloc(row, price_col))
       IN  price_val.ok /\ price_val.val > 0

\* _is_main_server_entry: a priced row whose description names a server.
IsMainServerEntry(part_number, description, row, price_col) ==
    /\ description # ""
    /\ HasPrice(row, price_col)
    /\ \/ AnyIn(server_indicators, Lower(description))
       \/ AnyIn(server_patterns, Lower(description))

\* _extract_clean_model_name
ExtractCleanModelName(description) ==
    IF description = "" THEN "Unknown Model"
    ELSE LET desc == Strip(description)
             i == Find(desc, " - ")
             rest == SubSeq(desc, i + 3, Len(desc))
             j == Find(rest, " - ")
             p0 == SubSeq(desc, 1, i - 1)
             p1 == IF j = 0 THEN rest ELSE SubSeq(rest, 1, j - 1)
         IN  IF i # 0 THEN Strip(p0 \o " - " \o p1)
             ELSE Strip(SubSeq(desc, 1, IF Len(desc) < 40 THEN Len(desc) ELSE 40))

\* _extract_form_factor
ExtractFormFactor(description) ==
    LET desc_lower == Lower(description)
    IN  IF Contains(desc_lower, "rack server") \/ Contains(desc_lower, "rack")
        THEN "Rack"
        ELSE IF Contains(desc_lower, "blade") THEN "Blade"
        ELSE IF Contains(desc_lower, "tower") THEN "Tower"
        ELSE "Rack"

\* _classify_component_type
ClassifyComponentType(description) ==
    IF description = "" THEN "other"
    ELSE LET desc_lower == Lower(description)
         IN  IF AnyIn(<<"processor", "cpu", "intel", "amd", "xeon", "epyc">>, desc_lower)
             THEN "processor"
             ELSE IF AnyIn(<<"memory", "ram", "gb", "dimm", "truddr">>, desc_lower)
             THEN "memory"
             ELSE IF AnyIn(<<"storage", "disk", "ssd", "hdd", "drive", "raid", "nvme">>,
                           desc_lower)
             THEN "storage"
             ELSE IF AnyIn(<<"network", "ethernet", "nic", "adapter", "broadcom">>,
                           desc_lower)
             THEN "network"
             ELSE "other"

\* The text of a cell were it taken without strip().
StrCellUnstripped(row, col) == IF col < Len(row) THEN CellStr(Iloc(row, col)) ELSE ""

\* str(row.iloc[part_col]).strip() if part_col < len(row) else ''
StrCell(row, col) == IF col < Len(row) THEN Strip(CellStr(Iloc(row, col))) ELSE ""

\* self._safe_float(row.iloc[col]) if col < len(row) else None
PriceCell(row, col) == IF col < Len(row) THEN SafeFloat(Iloc(row, col)) ELSE NoFloat

\* "if usd_price": None and 0.0 are false.
FloatTruthy(f) == f.ok /\ f.val # 0

\* The dict built for a main server entry (lines 63-88); n models are already
\* in corrected_models and t is the clock reading.
NewServer(part_number, description, row, n, t) ==
    LET usd_price == PriceCell(row, usd_price_col)
        eur_price == PriceCell(row, eur_price_col)
    IN  [id |-> "lenovo_server_" \o ToString(n + 1),
         lot_description |-> description,
         model_name |-> ExtractCleanModelName(description),
         model_number |-> part_number,
         category |-> "Server",
         form_factor |-> ExtractFormFactor(description),
         vendor |-> "Lenovo",
         processor_info |-> "",
         ram_info |-> "",
         network_info |-> "",
         price_5yr_psp |-> IF FloatTruthy(usd_price) THEN FloatStr(usd_price.val) ELSE "",
         all_prices |->
            [usd |-> IF FloatTruthy(usd_price) THEN FloatStr(usd_price.val) ELSE "N/A",
             eur |-> IF FloatTruthy(eur_price) THEN FloatStr(eur_price.val) ELSE "N/A"],
         quotation_date |-> t,
         full_configurations |-> <<>>,
         components_summary |->
            [processor |-> <<>>, memory |-> <<>>, storage |-> <<>>,
             network |-> <<>>, other |-> <<>>]]

\* NewConfig with the components of a model numbered from one.
NewConfigFromOne(server, part_number, description, row) ==
    [id |-> "config_" \o server.id \o "_"
                \o ToString(Len(server.full_configurations) + 1),
     item_type |-> ClassifyComponentType(description),
     description |-> description,
     raw_data |->
        [part_number |-> part_number,
         quantity |-> IF qty_col < Len(row) /\ Truthy(Iloc(row, qty_col))
                      THEN CellStr(Iloc(row, qty_col)) ELSE "1",
         usd |-> "N/A",
         eur |-> "N/A"]]

\* The config dict of a component row (lines 94-104).
NewConfig(server, part_number, description, row) ==
    [id |-> "config_" \o server.id \o "_" \o ToString(Len(server.full_configurations)),
     item_type |-> ClassifyComponentType(description),
     description |-> description,
     raw_data |->
        [part_number |-> part_number,
         quantity |-> IF qty_col < Len(row) /\ Truthy(Iloc(row, qty_col))
                      THEN CellStr(Iloc(row, qty_col)) ELSE "1",
         usd |-> "N/A",
         eur |-> "N/A"]]

\* AddConfig with the config inserted at the head of full_configurations.
AddConfigAtHead(server, config) ==
    [server EXCEPT !.full_configurations = <<config>> \o @,
                   !.components_summary[config.item_type] = Append(@, config.description)]

\* AddConfig that files only the four named types: a component of no named
\* type is appended to full_configurations and to no bucket.
AddConfigNamedOnly(server, config) ==
    LET t == config.item_type
        d == config.description
        s0 == [server EXCEPT !.full_configurations = Append(@, config)]
        s1 == IF t = "other" THEN s0
              ELSE [s0 EXCEPT !.components_summary[t] = Append(@, d)]
    IN  IF t = "processor" /\ s1.processor_info = ""
        THEN [s1 EXCEPT !.processor_info = d]
        ELSE IF t = "memory" /\ s1.ram_info = ""
        THEN [s1 EXCEPT !.ram_info = d]
        ELSE IF t = "network" /\ s1.network_info = ""
        THEN [s1 EXCEPT !.network_info = d]
        ELSE s1

\* Lines 106-121: append the config, file it in components_summary, and set
\* the first-match summary fields.
AddConfig(server, config) ==
    LET t == config.item_type
        d == config.description
        s1 == [server EXCEPT !.full_configurations = Append(@, config),
                             !.components_summary[t] = Append(@, d)]
    IN  IF t = "processor" /\ s1.processor_info = ""
        THEN [s1 EXCEPT !.processor_info = d]
        ELSE IF t = "memory" /\ s1.ram_info = ""
        THEN [s1 EXCEPT !.ram_info = d]
        ELSE IF t = "network" /\ s1.network_info = ""
        THEN [s1 EXCEPT !.network_info = d]
        ELSE s1

\* SavePrevious that writes the model in progress over the last finished one.
SavePreviousReplacing(ms, cur) ==
    IF cur = <<>> THEN ms
    ELSE IF ms = <<>> THEN <<cur[1]>>
    ELSE Append(SubSeq(ms, 1, Len(ms) - 1), cur[1])

\* SavePrevious that forgets the model in progress.
SavePreviousDropped(ms, cur) == ms

\* "if current_server: corrected_models.append(current_server)"
SavePrevious(ms, cur) == IF cur # <<>> THEN Append(ms, cur[1]) ELSE ms

-----------------------------------------------------------------------------
(* Sheets the model parses. *)

MkRow(part, desc, qty, usd, eur) == <<Empty, Txt(part), Txt(desc), qty, usd, eur>>

HeaderCells ==
    <<Empty, Txt("Part Number"), Txt("Description"), Txt("Quantity"),
      Txt("Total price in USD"), Txt("Total price in EUR")>>

BlankRow == <<Empty, Empty, Empty, Empty, Empty, Empty>>

TitleRow == <<Txt("Lenovo X86 Server Lots"), Empty, Empty, Empty, Empty, Empty>>

\* Four leading rows without a header row: parse_lenovo_correctly reads no
\* header, it starts at row 4 whatever rows 0 to 3 hold.
HeaderlessPreamble == <<TitleRow, BlankRow, TitleRow, TitleRow>>

\* Rows 0..3 of the Server Lots sheet: titles, then the header at row 3.
Preamble == <<TitleRow, BlankRow, BlankRow, HeaderCells>>

LotSMI1 ==
    MkRow("7D73CTO1WW", "SMI1 - Intel - 1 Proc - Small Rack Server",
          Num(100), Num(285000), Num(262050))
LotSMA1 ==
    MkRow("7D9CCTO1WW", "SMA1 - AMD - Tower", Num(100), Txt("3100.5"), Empty)
LotNoPrice ==
    MkRow("7D76CTO1WW", "MEI1 - Intel - Rack Server", Num(100), Txt("N/A"), Txt("N/A"))
CpuRow ==
    MkRow("BPQA", "Intel Xeon Silver 4410T 10C 150W 2.7GHz", Num(200), Empty, Empty)
MemRow == MkRow("BNF9", "16GB TruDDR5", Num(0), Empty, Empty)
NicRow ==
    MkRow("", "Broadcom 57414 10/25GbE SFP28 2-Port", Txt("2"), Num(45000), Empty)
FanRow == MkRow("BH8D", "Performance Fan", Empty, Num(-500), Empty)
SeparatorRow == MkRow(" ", "", Empty, Num(99900), Empty)

RowAlphabet ==
    {LotSMI1, LotSMA1, LotNoPrice, CpuRow, MemRow, NicRow, FanRow, SeparatorRow}

DataSheets == UNION {[1..n -> RowAlphabet] : n \in 0..MaxRows}

-----------------------------------------------------------------------------
(* CorrectedLenovoParser.parse_lenovo_correctly: the row loop. *)

\* The row loop were a row outside any lot to open a model of its own.
CorrectedRowAdopting ==
    /\ pc = "corrected"
    /\ idx < Len(df)
    /\ LET row == Row(df, idx)
           part_number == StrCell(row, part_col)
           description == StrCell(row, desc_col)
       IN  IF part_number = "" /\ description = ""
           THEN UNCHANGED <<corrected_models, current_server, now>>
           ELSE IF \/ IsMainServerEntry(part_number, description, row, usd_price_col)
                   \/ current_server = <<>>
           THEN \E t \in now..MaxClock :
                   /\ now' = t
                   /\ corrected_models' = SavePrevious(corrected_models, current_server)
                   /\ current_server' =
                        <<NewServer(part_number, description, row,
                                    Len(corrected_models'), t)>>
           ELSE /\ current_server' =
                     <<AddConfig(current_server[1],
                                 NewConfig(current_server[1], part_number,
                                           description, row))>>
                /\ UNCHANGED <<corrected_models, now>>
    /\ idx' = idx + 1
    /\ UNCHANGED <<df, pc, returned, first_run, run, enhancedVars, leafVars,
                   parVars, routerVars, otherVars>>

\* One iteration of "for idx in range(header_row + 1, df.shape[0])".
CorrectedRow ==
    /\ pc = "corrected"
    /\ idx < Len(df)
    /\ LET row == Row(df, idx)
           part_number == StrCell(row, part_col)
           description == StrCell(row, desc_col)
       IN  IF part_number = "" /\ description = ""
           THEN UNCHANGED <<corrected_models, current_server, now>>
           ELSE IF IsMainServerEntry(part_number, description, row, usd_price_col)
           THEN \E t \in now..MaxClock :
                   /\ now' = t
                   /\ corrected_models' = SavePrevious(corrected_models, current_server)
                   /\ current_server' =
                        <<NewServer(part_number, description, row,
                                    Len(corrected_models'), t)>>
           ELSE IF current_server # <<>> /\ (part_number # "" \/ description # "")
           THEN /\ current_server' =
                     <<AddConfig(current_server[1],
                                 NewConfig(current_server[1], part_number,
                                           description, row))>>
                /\ UNCHANGED <<corrected_models, now>>
           ELSE UNCHANGED <<corrected_models, current_server, now>>
    /\ idx' = idx + 1
    /\ UNCHANGED <<df, pc, returned, first_run, run, enhancedVars, leafVars,
                   parVars, routerVars, otherVars>>

\* After the loop: "if current_server: corrected_models.append(current_server)"
\* and "return corrected_models".
CorrectedFinish ==
    /\ pc = "corrected"
    /\ idx >= Len(df)
    /\ corrected_models' = SavePrevious(corrected_models, current_server)
    /\ returned' = corrected_models'
    /\ pc' = "done"
    /\ UNCHANGED <<df, idx, now, current_server, first_run, run, enhancedVars,
                   leafVars, parVars, routerVars, otherVars>>

\* A second call of parse_lenovo_correctly on the same file, later.
CorrectedRerun ==
    /\ pc = "done"
    /\ run = 1
    /\ first_run' = returned
    /\ run' = 2
    /\ idx' = HeaderRowFixed + 1
    /\ corrected_models' = <<>>
    /\ current_server' = <<>>
    /\ returned' = <<>>
    /\ pc' = "corrected"
    /\ \E t \in now..MaxClock : now' = t
    /\ UNCHANGED <<df, enhancedVars, leafVars, parVars, routerVars, otherVars>>

\* The column record before any header is found.
NoColumns ==
    [part_col |-> -1, desc_col |-> -1, qty_col |-> -1,
     usd_price_cols |-> {}, eur_price_cols |-> {}]
NoCall == [op |-> "none", cell |-> Empty, part |-> ""]
\* A dict entry that may be missing: Absent, or a number or string that is set.
Absent == [present |-> FALSE, n |-> 0, s |-> ""]
IntAttr(n) == [present |-> TRUE, n |-> n, s |-> ""]
StrAttr(t) == [present |-> TRUE, n |-> 0, s |-> t]

\* specs = {}: every key extract_specifications can set, none of them set.
NoSpecs ==
    [cores |-> Absent, frequency_ghz |-> Absent, capacity_gb |-> Absent,
     memory_type |-> Absent, storage_capacity_gb |-> Absent,
     storage_type |-> Absent, rack_units |-> Absent, form_factor |-> Absent]

NoRet ==
    [done |-> FALSE, price |-> NoFloat, type |-> "", category |-> "",
     specs |-> NoSpecs, info |-> ""]
NoItem ==
    [description |-> "", model_name |-> "", part_number |-> "", type |-> "",
     category |-> "", price |-> Empty, unit_price_usd |-> Empty,
     specifications |-> "", base_specifications |-> ""]

\* Values of the variables a specification does not use.
IdleCorrected ==
    /\ idx = HeaderRowFixed + 1
    /\ corrected_models = <<>>
    /\ current_server = <<>>
    /\ returned = <<>>
    /\ first_run = <<>>
    /\ run = 1
    /\ now = 0
IdleEnhanced ==
    /\ header_row = -1
    /\ analysis = NoColumns
    /\ models = <<>>
    /\ current_model = <<>>
    /\ outcome = "running"
IdleLeaf ==
    /\ call = NoCall
    /\ ret = NoRet
    /\ item = NoItem
    /\ enriched = <<>>

\* Settings before a router is built from them, the empty dict, and the
\* record of a get_adapter call before any call was made.
NoSettings ==
    [llm_provider |-> "", openai_api_key |-> FALSE, anthropic_api_key |-> FALSE]
EmptyDict == [p \in {} |-> 0]
NoResult ==
    [done |-> FALSE, argument |-> "", hit |-> FALSE, raised |-> "",
     adapter |-> 0]
IdlePar == invocations = <<>>
IdleProto == current_lot = <<>> /\ current_components = <<>>
IdlePipeline == enhanced_items = <<>> /\ backend_models = <<>> /\ matched = <<>>
IdleReport == items = <<>> /\ field_stats = <<>>
IdlePayload == api_models = <<>>
IdleOther == IdleProto /\ IdlePipeline /\ IdleReport /\ IdlePayload
IdleRouter ==
    /\ settings = NoSettings
    /\ instances = EmptyDict
    /\ created = 0
    /\ result = NoResult

Init ==
    /\ df \in {p \o d : p \in {Preamble, HeaderlessPreamble}, d \in DataSheets}
    /\ pc = "corrected"
    /\ IdleCorrected
    /\ IdleEnhanced
    /\ IdleLeaf
    /\ IdlePar
    /\ IdleRouter
    /\ IdleOther

Next == CorrectedRow \/ CorrectedFinish

Spec == Init /\ [][Next]_vars

NextRerun == CorrectedRow \/ CorrectedFinish \/ CorrectedRerun

SpecRerun == Init /\ [][NextRerun]_vars

-----------------------------------------------------------------------------
(* Two calls of parse_lenovo_correctly on two sheets, their loop iterations *)
(* interleaved.  corrected_models and current_server are local variables of *)
(* the call (l.38-39); the parser object holds only debug and backend_url.  *)

MaxParRows == 2

\* The rows the two sheets are made of.
ParRowAlphabet == {LotSMI1, CpuRow}
ParSheets == UNION {[1..n -> ParRowAlphabet] : n \in 0..MaxParRows}

\* The local variables of a call that has just read its sheet.
NewInvocation(sheet) ==
    [df |-> sheet, idx |-> HeaderRowFixed + 1, corrected_models |-> <<>>,
     current_server |-> <<>>, returned |-> <<>>, pc |-> "corrected"]

\* The accumulator were it kept on the parser object both calls run on.
SharedAccumulator(invs, p) ==
    [corrected_models |-> invs[1].corrected_models,
     current_server |-> invs[1].current_server]

\* The accumulator a loop iteration of call p works on: the call's locals.
Accumulator(invs, p) ==
    [corrected_models |-> invs[p].corrected_models,
     current_server |-> invs[p].current_server]

\* The body of the row loop (l.42-124) on one row, as a function of the
\* accumulator; t is what datetime.now() returns if it is called.
RowStep(acc, row, t) ==
    LET part_number == StrCell(row, part_col)
        description == StrCell(row, desc_col)
    IN  IF part_number = "" /\ description = ""
        THEN acc
        ELSE IF IsMainServerEntry(part_number, description, row, usd_price_col)
        THEN LET saved == SavePrevious(acc.corrected_models, acc.current_server)
             IN  [corrected_models |-> saved,
                  current_server |->
                      <<NewServer(part_number, description, row, Len(saved), t)>>]
        ELSE IF acc.current_server # <<>> /\ (part_number # "" \/ description # "")
        THEN [acc EXCEPT !.current_server =
                 <<AddConfig(acc.current_server[1],
                             NewConfig(acc.current_server[1], part_number,
                                       description, row))>>]
        ELSE acc

\* Whether the iteration on this row reads the clock.
ReadsClock(row) ==
    IsMainServerEntry(StrCell(row, part_col), StrCell(row, desc_col), row,
                      usd_price_col)

\* One loop iteration of call p.
ParRow(p) ==
    /\ pc = "par"
    /\ invocations[p].pc = "corrected"
    /\ invocations[p].idx < Len(invocations[p].df)
    /\ LET row == Row(invocations[p].df, invocations[p].idx)
       IN  \E t \in now..MaxClock :
            /\ ReadsClock(row) \/ t = now
            /\ now' = t
            /\ LET acc == RowStep(Accumulator(invocations, p), row, t)
               IN  invocations' =
                     [invocations EXCEPT
                        ![p].corrected_models = acc.corrected_models,
                        ![p].current_server = acc.current_server,
                        ![p].idx = @ + 1]
    /\ UNCHANGED <<df, idx, pc, corrected_models, current_server, returned,
                   first_run, run, enhancedVars, leafVars, routerVars, otherVars>>

\* The end of call p: the last server is appended and the list returned.
ParFinish(p) ==
    /\ pc = "par"
    /\ invocations[p].pc = "corrected"
    /\ invocations[p].idx >= Len(invocations[p].df)
    /\ LET acc == Accumulator(invocations, p)
           final == SavePrevious(acc.corrected_models, acc.current_server)
       IN  invocations' =
             [invocations EXCEPT ![p].corrected_models = final,
                                 ![p].returned = final,
                                 ![p].pc = "done"]
    /\ UNCHANGED <<df, idx, pc, now, corrected_models, current_server, returned,
                   first_run, run, enhancedVars, leafVars, routerVars, otherVars>>

InitPar ==
    /\ df = <<>>
    /\ pc = "par"
    /\ invocations \in
         {<<NewInvocation(Preamble \o s[1]), NewInvocation(Preamble \o s[2])>> :
            s \in {t \in ParSheets \X ParSheets : t[1] # t[2]}}
    /\ IdleCorrected
    /\ IdleEnhanced
    /\ IdleLeaf
    /\ IdleRouter
    /\ IdleOther

NextPar == \E p \in {1, 2} : ParRow(p) \/ ParFinish(p)

SpecPar == InitPar /\ [][NextPar]_vars

\* The list a call on the sheet returns when nothing else runs: the loop
\* from row k on, then the final append.
RECURSIVE LoopAlone(_, _, _)
LoopAlone(sheet, k, acc) ==
    IF k >= Len(sheet)
    THEN SavePrevious(acc.corrected_models, acc.current_server)
    ELSE LoopAlone(sheet, k + 1, RowStep(acc, Row(sheet, k), 0))
ParseAlone(sheet) ==
    LoopAlone(sheet, HeaderRowFixed + 1,
              [corrected_models |-> <<>>, current_server |-> <<>>])

\* A returned list without the clock readings in it.
Undated(ms) == [i \in 1..Len(ms) |-> [ms[i] EXCEPT !.quotation_date = 0]]

-----------------------------------------------------------------------------
(* Row classes of the corrected parser, read off the sheet. *)

\* 0-based indices of the data rows, in row order.
DataIdx == [k \in 1..(Len(df) - HeaderRowFixed - 1) |-> HeaderRowFixed + k]

RowPart(i) == StrCell(Row(df, i), part_col)
RowDesc(i) == StrCell(Row(df, i), desc_col)

IsBlankRow(i) == RowPart(i) = "" /\ RowDesc(i) = ""

IsLotRow(i) ==
    /\ ~IsBlankRow(i)
    /\ IsMainServerEntry(RowPart(i), RowDesc(i), Row(df, i), usd_price_col)

IsComponentRow(i) == ~IsBlankRow(i) /\ ~IsLotRow(i)

\* The lot-header rows of the sheet, in row order.
LotSeq == SelectSeq(DataIdx, IsLotRow)

\* The lot-header rows the loop has passed.
Passed(i) == i < idx
LotsPassed == SelectSeq(LotSeq, Passed)

\* The models built so far, finished or in progress.
Emitted == IF pc = "done" THEN returned ELSE corrected_models \o current_server

\* The component rows of lot k: those after its header and before the next.
InLot(k, i) ==
    /\ IsComponentRow(i)
    /\ LotSeq[k] < i
    /\ (k < Len(LotSeq) => i < LotSeq[k + 1])

LotComponents(k) ==
    LET Mine(i) == InLot(k, i)
        rs == SelectSeq(DataIdx, Mine)
    IN  [j \in 1..Len(rs) |-> <<RowPart(rs[j]), RowDesc(rs[j])>>]

ConfigKeys(m) ==
    [j \in 1..Len(m.full_configurations) |->
        <<m.full_configurations[j].raw_data.part_number,
          m.full_configurations[j].description>>]

RECURSIVE TotalConfigs(_)
TotalConfigs(ms) ==
    IF ms = <<>> THEN 0
    ELSE Len(Head(ms).full_configurations) + TotalConfigs(Tail(ms))

ComponentRowCount == Len(SelectSeq(DataIdx, IsComponentRow))

-----------------------------------------------------------------------------
(* Claims about the grouping loop. *)

C4_RerunIdentical ==
    (pc = "done" /\ run = 2) => returned = first_run

-----------------------------------------------------------------------------
(* EnhancedLenovoParser: header locator and column map. *)

\* "for i in range(min(10, df.shape[0]))"
HeaderScanRows == 10
\* "if matches >= 3"
MinHeaderMatches == 3

header_indicators ==
    <<"part number", "description", "quantity", "price", "total price", "usd", "eur">>

\* df.iloc[i].fillna('').astype(str).tolist()
RowValues(row) == [c \in 1..Len(row) |-> CellStr(row[c])]

\* text_values, lower-cased: the non-blank cells of the row, stripped.
TextValues(row) ==
    {Lower(Strip(CellStr(row[c]))) : c \in 1..Len(row)} \ {""}

\* "matches": the number of indicators found in some non-blank cell of the row.
HeaderMatches(row) ==
    LET text_values == TextValues(row)
    IN  Cardinality({k \in 1..Len(header_indicators) :
            \E v \in text_values : Contains(v, header_indicators[k])})

Min(a, b) == IF a < b THEN a ELSE b

\* The loop of _find_header_row from row i on, with threshold th; -1 is None.
RECURSIVE ScanHeader(_, _, _)
ScanHeader(d, i, th) ==
    IF i >= Min(HeaderScanRows, Len(d)) THEN -1
    ELSE IF HeaderMatches(Row(d, i)) >= th THEN i
    ELSE ScanHeader(d, i + 1, th)

\* _find_header_row
FindHeaderRow(d) == ScanHeader(d, 0, MinHeaderMatches)

\* analysis['column_mapping'] as the sequence of headers; a blank header is
\* not in the mapping.
Headers(d, h) == RowValues(Row(d, h))
InMapping(d, h, c) == Strip(Headers(d, h)[c + 1]) # ""

\* _find_column_by_keywords: the first mapped column whose header holds a
\* keyword; -1 is None.
FindColumnByKeywords(d, h, keywords) ==
    LET hit == {c \in 0..(Len(Row(d, h)) - 1) :
                   /\ InMapping(d, h, c)
                   /\ AnyIn(keywords, Lower(Headers(d, h)[c + 1]))}
    IN  IF hit = {} THEN -1 ELSE CHOOSE c \in hit : \A c2 \in hit : c <= c2

\* analysis['price_columns'] narrowed to the headers holding cur ('usd', 'eur'),
\* as the set of column indices (the code walks them in increasing order).
PriceCols(d, h, cur) ==
    {c \in 0..(Len(Row(d, h)) - 1) :
        /\ Headers(d, h)[c + 1] # ""
        /\ AnyIn(<<"price", "usd", "eur">>, Lower(Headers(d, h)[c + 1]))
        /\ Contains(Lower(Headers(d, h)[c + 1]), cur)}

\* Lines 112-120: the columns the row loop reads, found once before it.
FindColumns(d, h) ==
    [part_col |-> FindColumnByKeywords(d, h, <<"part number", "part">>),
     desc_col |-> FindColumnByKeywords(d, h, <<"description", "desc">>),
     qty_col |-> FindColumnByKeywords(d, h, <<"quantity", "qty">>),
     usd_price_cols |-> PriceCols(d, h, "usd"),
     eur_price_cols |-> PriceCols(d, h, "eur")]

-----------------------------------------------------------------------------
(* EnhancedLenovoParser: row helpers. *)

enh_server_indicators ==
    <<"smi1", "smi2", "sma1", "sma2", "mei1", "mei2", "mea1", "mea2",
      "hvi1", "hvi2", "hva1", "hva2", "vei1", "vei2", "vea1", "vea2",
      "server", "thinksystem", "thinkagile", "sr630", "sr650", "sr655", "sr665">>

negative_indicators ==
    <<"processor", "memory", "disk", "storage", "network", "adapter",
      "upgrade", "option", "warranty", "service", "support", "cable">>

\* _is_server_model_entry
IsServerModelEntry(part_number, description) ==
    /\ description # ""
    /\ AnyIn(enh_server_indicators, Lower(description))
    /\ ~AnyIn(negative_indicators, Lower(description))

\* The first n blank-separated words of s, joined by single blanks.
RECURSIVE FirstWords(_, _)
FirstWords(s, n) ==
    LET t == LStrip(s)
        sp == Find(t, " ")
        w == IF sp = 0 THEN t ELSE SubSeq(t, 1, sp - 1)
        more == IF sp = 0 THEN "" ELSE FirstWords(SubSeq(t, sp + 1, Len(t)), n - 1)
    IN  IF n = 0 \/ t = "" THEN ""
        ELSE IF more = "" THEN w ELSE w \o " " \o more

\* _extract_model_name
ExtractModelName(description) ==
    IF description = "" THEN "Unknown Model"
    ELSE LET desc == Strip(description)
             i == Find(desc, " - ")
             rest == SubSeq(desc, i + 3, Len(desc))
             j == Find(rest, " - ")
             p0 == SubSeq(desc, 1, i - 1)
             p1 == IF j = 0 THEN rest ELSE SubSeq(rest, 1, j - 1)
         IN  IF i # 0 THEN p0 \o " - " \o p1 ELSE FirstWords(desc, 3)

\* s.replace(c, '')
RECURSIVE RemoveChar(_, _)
RemoveChar(s, c) ==
    IF s = "" THEN ""
    ELSE (IF CharAt(s, 1) = c THEN "" ELSE CharAt(s, 1))
            \o RemoveChar(SubSeq(s, 2, Len(s)), c)

\* str.isdigit(): non-empty and decimal digits only.
IsDigitStr(s) == s # "" /\ LeadingDigits(s) = Len(s)

\* One currency of _extract_pricing: the first column of cols, in increasing
\* order, whose text is digits once '.' and ',' are removed gives the price;
\* float() raising there raises out of _extract_pricing.
RECURSIVE PriceFrom(_, _)
PriceFrom(row, cols) ==
    IF cols = {} THEN [raised |-> FALSE, price |-> NoFloat]
    ELSE LET c == CHOOSE x \in cols : \A y \in cols : x <= y
             val == IF c < Len(row) THEN Strip(CellStr(Iloc(row, c))) ELSE ""
             f == ParseFloat(RemoveChar(val, ","))
         IN  IF val # "" /\ IsDigitStr(RemoveChar(RemoveChar(val, "."), ","))
             THEN [raised |-> ~f.ok, price |-> f]
             ELSE PriceFrom(row, cols \ {c})

\* _extract_pricing
ExtractPricing(row, usd_cols, eur_cols) ==
    LET u == PriceFrom(row, usd_cols)
        e == PriceFrom(row, eur_cols)
    IN  [raised |-> u.raised \/ e.raised, usd |-> u.price, eur |-> e.price]

\* _extract_quantity; the float is cut to an integer by int().
ExtractQuantity(row, q) ==
    IF q = -1 \/ q >= Len(row) THEN 1
    ELSE LET val == Strip(CellStr(Iloc(row, q)))
             f == ParseFloat(val)
         IN  IF val # "" /\ IsDigitStr(RemoveChar(val, ".")) /\ f.ok
             THEN f.val \div 100
             ELSE 1

\* "self._extract_quantity(row, qty_col) if qty_col else 1": None and column 0
\* are both false.
QuantityOf(row, q) == IF q # -1 /\ q # 0 THEN ExtractQuantity(row, q) ELSE 1

\* The dict of a new model (lines 144-153); n models are in "models" already.
NewModel(part_number, description, row, n, i) ==
    [id |-> "lenovo_model_" \o ToString(n + 1),
     model_name |-> ExtractModelName(description),
     part_number |-> part_number,
     description |-> description,
     components |-> <<>>,
     pricing |-> [usd |-> ExtractPricing(row, analysis.usd_price_cols, analysis.eur_price_cols).usd,
                  eur |-> ExtractPricing(row, analysis.usd_price_cols, analysis.eur_price_cols).eur],
     row_index |-> i,
     source |-> "Server Lots"]

\* The component dict (lines 159-164).
NewComponent(part_number, description, row) ==
    [part_number |-> part_number,
     description |-> description,
     quantity |-> QuantityOf(row, analysis.qty_col),
     pricing |-> [usd |-> ExtractPricing(row, analysis.usd_price_cols, analysis.eur_price_cols).usd,
                  eur |-> ExtractPricing(row, analysis.usd_price_cols, analysis.eur_price_cols).eur]]

-----------------------------------------------------------------------------
(* EnhancedLenovoParser.parse_lenovo_server_lots. *)

\* A notes row above the header that happens to name three header words.
NoteRow ==
    <<Txt("Price list - part number and description per lot"),
      Empty, Empty, Empty, Empty, Empty>>
\* Two header words only.
ShortHeader == <<Empty, Txt("Part Number"), Txt("Description"), Empty, Empty, Empty>>
\* A header without a description column.
HeaderNoDesc ==
    <<Empty, Txt("Part Number"), Txt("Item"), Txt("Quantity"),
      Txt("Total price in USD"), Txt("Total price in EUR")>>
\* A header without any price column.
HeaderNoPrice ==
    <<Empty, Txt("Part Number"), Txt("Description"), Txt("Quantity"), Empty, Empty>>

\* The rows above the data, one choice per sheet layout.
Preambles ==
    {Preamble,
     <<TitleRow, NoteRow, HeaderCells>>,
     <<TitleRow, BlankRow, ShortHeader>>,
     <<TitleRow, HeaderNoDesc>>,
     <<TitleRow, HeaderNoPrice>>,
     [i \in 1..HeaderScanRows |-> TitleRow] \o <<HeaderCells>>}

BadPriceRow == MkRow("BH8D", "Performance Fan", Num(100), Txt("1.2.3"), Empty)

EnhRowAlphabet ==
    {LotSMI1, LotSMA1, CpuRow, MemRow, NicRow, BadPriceRow, SeparatorRow}

EnhSheets == UNION {[1..n -> EnhRowAlphabet] : n \in 0..MaxRows}

\* Lines 95-107: the sheet is analysed; without a header row the parse returns [].
EnhancedStart ==
    /\ pc = "enh_start"
    /\ header_row' = FindHeaderRow(df)
    /\ IF header_row' = -1
       THEN /\ outcome' = "no_header"
            /\ pc' = "done"
            /\ UNCHANGED <<idx, analysis>>
       ELSE /\ analysis' = FindColumns(df, header_row')
            /\ idx' = header_row' + 1
            /\ pc' = "enh_loop"
            /\ UNCHANGED outcome
    /\ UNCHANGED <<df, now, corrected_models, current_server, returned, first_run,
                   run, models, current_model, leafVars, parVars, routerVars, otherVars>>

\* One iteration of "for idx in range(data_start, df.shape[0])".  An exception
\* raised in the body leaves through "except Exception", which returns [].
EnhancedRow ==
    /\ pc = "enh_loop"
    /\ idx < Len(df)
    /\ LET row == RowValues(Row(df, idx))
           part_number == IF analysis.part_col < Len(row)
                          THEN Strip(row[analysis.part_col + 1]) ELSE ""
           description == IF analysis.desc_col < Len(row)
                          THEN Strip(row[analysis.desc_col + 1]) ELSE ""
           raised == ExtractPricing(Row(df, idx), analysis.usd_price_cols, analysis.eur_price_cols).raised
       IN  IF analysis.part_col = -1 \/ analysis.desc_col = -1
           THEN /\ idx' = idx + 1
                /\ UNCHANGED <<models, current_model, pc, outcome>>
           ELSE IF part_number = "" /\ description = ""
           THEN /\ idx' = idx + 1
                /\ UNCHANGED <<models, current_model, pc, outcome>>
           ELSE IF IsServerModelEntry(part_number, description)
           THEN /\ models' = SavePrevious(models, current_model)
                /\ IF raised
                   THEN /\ pc' = "done"
                        /\ outcome' = "exception"
                        /\ UNCHANGED <<idx, current_model>>
                   ELSE /\ current_model' =
                             <<NewModel(part_number, description, Row(df, idx),
                                        Len(models'), idx)>>
                        /\ idx' = idx + 1
                        /\ UNCHANGED <<pc, outcome>>
           ELSE IF current_model # <<>> /\ (part_number # "" \/ description # "")
           THEN IF raised
                THEN /\ pc' = "done"
                     /\ outcome' = "exception"
                     /\ UNCHANGED <<idx, models, current_model>>
                ELSE /\ current_model' =
                          <<[current_model[1] EXCEPT !.components =
                                Append(@, NewComponent(part_number, description,
                                                       Row(df, idx)))]>>
                     /\ idx' = idx + 1
                     /\ UNCHANGED <<models, pc, outcome>>
           ELSE /\ idx' = idx + 1
                /\ UNCHANGED <<models, current_model, pc, outcome>>
    /\ UNCHANGED <<df, now, corrected_models, current_server, returned, first_run,
                   run, header_row, analysis, leafVars, parVars, routerVars, otherVars>>

\* Lines 170-175: the last model is added and "models" is returned.
EnhancedFinish ==
    /\ pc = "enh_loop"
    /\ idx >= Len(df)
    /\ models' = SavePrevious(models, current_model)
    /\ returned' = models'
    /\ outcome' = "ok"
    /\ pc' = "done"
    /\ UNCHANGED <<df, idx, now, corrected_models, current_server, first_run, run,
                   header_row, analysis, current_model, leafVars, parVars, routerVars, otherVars>>

InitEnhanced ==
    /\ df \in {p \o d : p \in Preambles, d \in EnhSheets}
    /\ pc = "enh_start"
    /\ idx = 0
    /\ corrected_models = <<>>
    /\ current_server = <<>>
    /\ returned = <<>>
    /\ first_run = <<>>
    /\ run = 1
    /\ now = 0
    /\ IdleEnhanced
    /\ IdleLeaf
    /\ IdlePar
    /\ IdleRouter
    /\ IdleOther

NextEnhanced == EnhancedStart \/ EnhancedRow \/ EnhancedFinish

SpecEnhanced == InitEnhanced /\ [][NextEnhanced]_vars

-----------------------------------------------------------------------------
(* Price extraction: DirectBasketAnalyzer.extract_price,                    *)
(* ComprehensiveBasketEnricher.extract_price_from_text and                  *)
(* ServerSpecProcessor.extract_price_value.                                 *)

\* A character of the class [\d,].
InNumClass(s, i) == i <= Len(s) /\ (IsDigit(CharAt(s, i)) \/ CharAt(s, i) = ",")

\* Length of the run of [\d,] characters of s from index i on.
RECURSIVE NumRun(_, _)
NumRun(s, i) == IF InNumClass(s, i) THEN 1 + NumRun(s, i + 1) ELSE 0

\* Last index of the greedy match of [\d,]+\.?\d* that starts at index i
\* (i holds a character of the class).
NumberEnd(s, i) ==
    LET e1 == i + NumRun(s, i) - 1
        e2 == IF e1 < Len(s) /\ CharAt(s, e1 + 1) = "." THEN e1 + 1 ELSE e1
    IN  e2 + LeadingDigits(SubSeq(s, e2 + 1, Len(s)))

\* Index of the first non-blank character of s at or after i (\s*).
RECURSIVE SkipSpace(_, _)
SkipSpace(s, i) ==
    IF i <= Len(s) /\ IsSpace(CharAt(s, i)) THEN SkipSpace(s, i + 1) ELSE i

\* The literal cur ("usd", "eur") stands at index i of s, in any letter case.
CurrencyAt(s, i, cur) == i + 2 <= Len(s) /\ Lower(SubSeq(s, i, i + 2)) = cur

NoMatch == [m |-> FALSE, g |-> ""]

\* re.search of \$?([\d,]+\.?\d*) : group 1 of the leftmost match.
SearchNumber(s) ==
    LET starts == {i \in 1..Len(s) : InNumClass(s, i)}
        i == CHOOSE x \in starts : \A y \in starts : x <= y
    IN  IF starts = {} THEN NoMatch
        ELSE [m |-> TRUE, g |-> SubSeq(s, i, NumberEnd(s, i))]

\* re.search of ([\d,]+\.?\d*)\s*CUR with re.IGNORECASE.
SearchNumberThenCurrency(s, cur) ==
    LET starts == {i \in 1..Len(s) :
                      /\ InNumClass(s, i)
                      /\ CurrencyAt(s, SkipSpace(s, NumberEnd(s, i) + 1), cur)}
        i == CHOOSE x \in starts : \A y \in starts : x <= y
    IN  IF starts = {} THEN NoMatch
        ELSE [m |-> TRUE, g |-> SubSeq(s, i, NumberEnd(s, i))]

\* re.search of CUR\s*([\d,]+\.?\d*) with re.IGNORECASE.
SearchCurrencyThenNumber(s, cur) ==
    LET starts == {i \in 1..Len(s) :
                      /\ CurrencyAt(s, i, cur)
                      /\ InNumClass(s, SkipSpace(s, i + 3))}
        i == CHOOSE x \in starts : \A y \in starts : x <= y
        j == SkipSpace(s, i + 3)
    IN  IF starts = {} THEN NoMatch
        ELSE [m |-> TRUE, g |-> SubSeq(s, j, NumberEnd(s, j))]

\* self.price_patterns, in list order.
PricePatternCount == 5
SearchPattern(k, s) ==
    CASE k = 1 -> SearchNumber(s)
      [] k = 2 -> SearchNumberThenCurrency(s, "usd")
      [] k = 3 -> SearchNumberThenCurrency(s, "eur")
      [] k = 4 -> SearchCurrencyThenNumber(s, "usd")
      [] k = 5 -> SearchCurrencyThenNumber(s, "eur")

\* "for pattern in self.price_patterns": the first pattern whose group parses
\* to a number above zero gives the price.
RECURSIVE TryPatterns(_, _)
TryPatterns(s, k) ==
    IF k > PricePatternCount THEN NoFloat
    ELSE LET m == SearchPattern(k, s)
             f == ParseFloat(RemoveChar(m.g, ","))
         IN  IF m.m /\ f.ok /\ f.val > 0 THEN f ELSE TryPatterns(s, k + 1)

\* DirectBasketAnalyzer.extract_price
ExtractPrice(price_str) ==
    IF price_str = "" THEN NoFloat
    ELSE IF Lower(Strip(price_str)) \in {"n/a", "tbd", "contact", "varies", "unknown", ""}
    THEN NoFloat
    ELSE TryPatterns(Strip(price_str), 1)

\* ComprehensiveBasketEnricher.extract_price_from_text
ExtractPriceFromText(text) ==
    IF text = "" THEN NoFloat
    ELSE IF Lower(Strip(text)) \in
              {"n/a", "tbd", "contact", "varies", "unknown", "null", "none", ""}
    THEN NoFloat
    ELSE TryPatterns(Strip(text), 1)

\* ServerSpecProcessor.extract_price_value, on a number or a string.
ExtractPriceValue(price_input) ==
    IF ~Truthy(price_input) THEN NoFloat
    ELSE IF price_input.num
    THEN (IF price_input.n > 0 THEN SomeFloat(price_input.n) ELSE NoFloat)
    ELSE LET price_str == Lower(Strip(price_input.s))
             m == SearchNumber(RemoveChar(price_str, ","))
         IN  IF price_str \in
                  {"n/a", "tbd", "contact", "varies", "unknown", "null", "none", ""}
             THEN NoFloat
             ELSE IF m.m THEN ParseFloat(m.g) ELSE NoFloat

-----------------------------------------------------------------------------
(* Component classification: DirectBasketAnalyzer.classify_component and    *)
(* ComprehensiveBasketEnricher.classify_component.                          *)

IsAlpha(c) == IsUpper(c) \/ c \in {CharAt(LowerChars, i) : i \in 1..26}

AllAlpha(s) == \A i \in 1..Len(s) : IsAlpha(CharAt(s, i))
AllUpper(s) == \A i \in 1..Len(s) : IsUpper(CharAt(s, i))

\* re.match of ^[A-Z]{lo,hi}\d{1,2}[A-Z]?$ (tail = TRUE) or of
\* ^[A-Z]{lo,hi}\d{1,2}$ on p; ci is re.IGNORECASE.
LotCodeMatch(p, lo, hi, tail, ci) ==
    \E a \in lo..hi, d \in 1..2, z \in (IF tail THEN 0..1 ELSE {0}) :
        /\ Len(p) = a + d + z
        /\ IF ci THEN AllAlpha(SubSeq(p, 1, a)) ELSE AllUpper(SubSeq(p, 1, a))
        /\ IsDigitStr(SubSeq(p, a + 1, a + d))
        /\ IF ci THEN AllAlpha(SubSeq(p, a + d + 1, Len(p)))
           ELSE AllUpper(SubSeq(p, a + d + 1, Len(p)))

\* self.component_classification of DirectBasketAnalyzer, in dict order.  The
\* only part pattern, r'^[A-Z]{2,3}\d{1,2}[A-Z]?$', belongs to 'server'.
component_classification ==
    <<[type |-> "server", category |-> "Server Hardware", lot_code |-> TRUE,
       keywords |-> <<"thinksystem", "server", "chassis", "1u", "2u", "4u">>],
      [type |-> "processor", category |-> "CPU", lot_code |-> FALSE,
       keywords |-> <<"xeon", "processor", "cpu", "core", "ghz">>],
      [type |-> "memory", category |-> "Memory", lot_code |-> FALSE,
       keywords |-> <<"truddram4", "memory", "dimm", "dram", "gb ram">>],
      [type |-> "storage", category |-> "Storage", lot_code |-> FALSE,
       keywords |-> <<"ssd", "hdd", "drive", "storage", "tb", "gb disk">>],
      [type |-> "network", category |-> "Network", lot_code |-> FALSE,
       keywords |-> <<"ethernet", "network", "nic", "10gbe", "25gbe", "adapter">>],
      [type |-> "power", category |-> "Power", lot_code |-> FALSE,
       keywords |-> <<"power supply", "psu", "watt", "power">>],
      [type |-> "raid", category |-> "RAID Controller", lot_code |-> FALSE,
       keywords |-> <<"raid", "controller", "storage controller">>],
      [type |-> "service", category |-> "Service", lot_code |-> FALSE,
       keywords |-> <<"warranty", "service", "support", "maintenance">>]>>

\* The body of the loop of classify_component for one rule: a keyword in the
\* lower-cased description, or the part number matching a part pattern.
RuleMatches(rule, desc_lower, part_number) ==
    \/ AnyIn(rule.keywords, desc_lower)
    \/ /\ part_number # ""
       /\ rule.lot_code
       /\ LotCodeMatch(part_number, 2, 3, TRUE, TRUE)

Generic == [type |-> "component", category |-> "Hardware"]

\* "for comp_type, rules in self.component_classification.items()" from rule k.
RECURSIVE ClassifyFrom(_, _, _)
ClassifyFrom(k, desc_lower, part_number) ==
    IF k > Len(component_classification) THEN Generic
    ELSE IF RuleMatches(component_classification[k], desc_lower, part_number)
    THEN [type |-> component_classification[k].type,
          category |-> component_classification[k].category]
    ELSE ClassifyFrom(k + 1, desc_lower, part_number)

\* classify_component that lets a later matching rule override an earlier one.
ClassifyComponentLastWins(description, part_number) ==
    LET hit == {k \in 1..Len(component_classification) :
                   RuleMatches(component_classification[k], Lower(description),
                               part_number)}
        k == CHOOSE x \in hit : \A y \in hit : y <= x
    IN  IF hit = {} THEN Generic
        ELSE [type |-> component_classification[k].type,
              category |-> component_classification[k].category]

\* DirectBasketAnalyzer.classify_component
ClassifyComponent(description, part_number) ==
    ClassifyFrom(1, Lower(description), part_number)

\* self.component_rules of ComprehensiveBasketEnricher, in dict order.  The
\* part patterns r'.*x.*' are kept as the substring x; r'^[A-Z]{3}\d{1,2}$' is
\* the lot_code flag of 'server'.
component_rules ==
    <<[type |-> "server", category |-> "Hardware", lot_code |-> TRUE,
       keywords |-> <<"thinkstation", "thinksystem", "poweredge", "proliant",
                      "server", "chassis">>,
       part_patterns |-> <<>>],
      [type |-> "processor", category |-> "Hardware", lot_code |-> FALSE,
       keywords |-> <<"xeon", "epyc", "processor", "cpu", "core">>,
       part_patterns |-> <<"cpu", "proc">>],
      [type |-> "memory", category |-> "Hardware", lot_code |-> FALSE,
       keywords |-> <<"dimm", "tru", "memory", "dram", "ram", "truddram4">>,
       part_patterns |-> <<"mem", "dimm", "ram">>],
      [type |-> "storage", category |-> "Hardware", lot_code |-> FALSE,
       keywords |-> <<"ssd", "hdd", "nvme", "drive", "storage", "disk">>,
       part_patterns |-> <<"ssd", "hdd", "drive">>],
      [type |-> "network", category |-> "Hardware", lot_code |-> FALSE,
       keywords |-> <<"ethernet", "broadcom", "intel", "network", "nic",
                      "10gbe", "25gbe">>,
       part_patterns |-> <<"eth", "nic", "net">>],
      [type |-> "power", category |-> "Hardware", lot_code |-> FALSE,
       keywords |-> <<"power supply", "psu", "power", "watt">>,
       part_patterns |-> <<"psu", "power">>],
      [type |-> "service", category |-> "Service", lot_code |-> FALSE,
       keywords |-> <<"warranty", "service", "support", "professional services",
                      "maintenance">>,
       part_patterns |-> <<"warr", "svc">>]>>

\* One rule of the enricher's loop.  The part patterns are matched against the
\* lower-cased part number without re.IGNORECASE.
EnricherRuleMatches(rule, desc_lower, part_number) ==
    \/ AnyIn(rule.keywords, desc_lower)
    \/ /\ part_number # ""
       /\ \/ rule.lot_code /\ LotCodeMatch(Lower(part_number), 3, 3, FALSE, FALSE)
          \/ AnyIn(rule.part_patterns, Lower(part_number))

RECURSIVE EnricherClassifyFrom(_, _, _)
EnricherClassifyFrom(k, desc_lower, part_number) ==
    IF k > Len(component_rules) THEN Generic
    ELSE IF EnricherRuleMatches(component_rules[k], desc_lower, part_number)
    THEN [type |-> component_rules[k].type, category |-> component_rules[k].category]
    ELSE EnricherClassifyFrom(k + 1, desc_lower, part_number)

\* ComprehensiveBasketEnricher.classify_component
EnricherClassify(description, part_number) ==
    EnricherClassifyFrom(1, Lower(description), part_number)

\* "for source in price_sources": the first source a price is extracted from.
RECURSIVE FirstPrice(_, _)
FirstPrice(sources, k) ==
    IF k > Len(sources) THEN NoFloat
    ELSE IF ExtractPriceFromText(sources[k]).ok THEN ExtractPriceFromText(sources[k])
    ELSE FirstPrice(sources, k + 1)

\* ComprehensiveBasketEnricher.enrich_basket_item: the enriched copy of it.
EnrichedItem(it) ==
    LET description == IF it.description # "" THEN it.description ELSE it.model_name
        classified == EnricherClassify(description, it.part_number)
        retype == it.type = "" \/ it.type \in {"N/A", "Unknown"}
        current_price == IF Truthy(it.price) THEN it.price ELSE it.unit_price_usd
        price_value ==
            IF ~Truthy(current_price) \/ current_price = Txt("N/A")
            THEN FirstPrice(<<description, it.specifications,
                              it.base_specifications>>, 1)
            ELSE NoFloat
    IN  [it EXCEPT
            !.type = IF retype THEN classified.type ELSE @,
            !.category = IF retype THEN classified.category ELSE @,
            !.unit_price_usd = IF price_value.ok THEN Num(price_value.val) ELSE @,
            !.price = IF price_value.ok THEN Num(price_value.val) ELSE @]

-----------------------------------------------------------------------------
(* Specification extraction: DirectBasketAnalyzer.extract_specifications and *)
(* the component analysis of test_enhanced_lenovo_parsing.                   *)

DigitAt(s, i) == i >= 1 /\ i <= Len(s) /\ IsDigit(CharAt(s, i))

\* The literal lit stands at index i of s.
LitAt(s, i, lit) ==
    i >= 1 /\ i + Len(lit) - 1 <= Len(s) /\ SubSeq(s, i, i + Len(lit) - 1) = lit

\* Last index of the greedy match of \d+ that starts at the digit at i.
DigitsEnd(s, i) == i + LeadingDigits(SubSeq(s, i, Len(s))) - 1

\* Last index of the greedy match of \d+\.?\d* that starts at the digit at i.
DecimalEnd(s, i) ==
    LET e1 == DigitsEnd(s, i)
        e2 == IF LitAt(s, e1 + 1, ".") THEN e1 + 1 ELSE e1
    IN  e2 + LeadingDigits(SubSeq(s, e2 + 1, Len(s)))

MinOf(S) == CHOOSE x \in S : \A y \in S : x <= y

\* Where (\d+\.?\d*)\s*ghz can match at or after index from.
GhzStarts(s, from) ==
    {j \in from..Len(s) :
        DigitAt(s, j) /\ LitAt(s, SkipSpace(s, DecimalEnd(s, j) + 1), "ghz")}

\* re.search(r'(\d+)\s*core.*?(\d+\.?\d*)\s*ghz', desc_lower)
CpuMatch(s) ==
    LET after(i) == SkipSpace(s, DigitsEnd(s, i) + 1)
        starts == {i \in 1..Len(s) :
                      /\ DigitAt(s, i)
                      /\ LitAt(s, after(i), "core")
                      /\ GhzStarts(s, after(i) + 4) # {}}
        i == MinOf(starts)
        j == MinOf(GhzStarts(s, after(i) + 4))
    IN  IF starts = {} THEN [m |-> FALSE, g1 |-> "", g2 |-> ""]
        ELSE [m |-> TRUE, g1 |-> SubSeq(s, i, DigitsEnd(s, i)),
              g2 |-> SubSeq(s, j, DecimalEnd(s, j))]

\* Where ddr(\d) can match at or after index from.
DdrStarts(s, from) == {j \in from..Len(s) : LitAt(s, j, "ddr") /\ DigitAt(s, j + 3)}

\* re.search(r'(\d+)\s*gb.*?ddr(\d)', desc_lower)
MemoryMatch(s) ==
    LET after(i) == SkipSpace(s, DigitsEnd(s, i) + 1)
        starts == {i \in 1..Len(s) :
                      /\ DigitAt(s, i)
                      /\ LitAt(s, after(i), "gb")
                      /\ DdrStarts(s, after(i) + 2) # {}}
        i == MinOf(starts)
        j == MinOf(DdrStarts(s, after(i) + 2))
    IN  IF starts = {} THEN [m |-> FALSE, g1 |-> "", g2 |-> ""]
        ELSE [m |-> TRUE, g1 |-> SubSeq(s, i, DigitsEnd(s, i)),
              g2 |-> CharAt(s, j + 3)]

\* Where (ssd|hdd) can match at or after index from.
DriveStarts(s, from) == {j \in from..Len(s) : LitAt(s, j, "ssd") \/ LitAt(s, j, "hdd")}

\* re.search(r'(\d+\.?\d*)\s*(tb|gb).*?(ssd|hdd)', desc_lower)
StorageMatch(s) ==
    LET after(i) == SkipSpace(s, DecimalEnd(s, i) + 1)
        starts == {i \in 1..Len(s) :
                      /\ DigitAt(s, i)
                      /\ (LitAt(s, after(i), "tb") \/ LitAt(s, after(i), "gb"))
                      /\ DriveStarts(s, after(i) + 2) # {}}
        i == MinOf(starts)
        j == MinOf(DriveStarts(s, after(i) + 2))
    IN  IF starts = {} THEN [m |-> FALSE, g1 |-> "", g2 |-> "", g3 |-> ""]
        ELSE [m |-> TRUE, g1 |-> SubSeq(s, i, DecimalEnd(s, i)),
              g2 |-> SubSeq(s, after(i), after(i) + 1),
              g3 |-> SubSeq(s, j, j + 2)]

\* re.search(r'(\d+)u\s*(rack|server)', desc_lower)
FormFactorMatch(s) ==
    LET after(i) == SkipSpace(s, DigitsEnd(s, i) + 2)
        starts == {i \in 1..Len(s) :
                      /\ DigitAt(s, i)
                      /\ LitAt(s, DigitsEnd(s, i) + 1, "u")
                      /\ (LitAt(s, after(i), "rack") \/ LitAt(s, after(i), "server"))}
        i == MinOf(starts)
    IN  IF starts = {} THEN [m |-> FALSE, g1 |-> ""]
        ELSE [m |-> TRUE, g1 |-> SubSeq(s, i, DigitsEnd(s, i))]

LowerToUpper ==
    [c \in {CharAt(LowerChars, i) : i \in 1..26} |->
        CharAt(UpperChars, CHOOSE i \in 1..26 : CharAt(LowerChars, i) = c)]

\* str.upper()
RECURSIVE Upper(_)
Upper(s) ==
    IF s = "" THEN ""
    ELSE (IF CharAt(s, 1) \in DOMAIN LowerToUpper THEN LowerToUpper[CharAt(s, 1)]
          ELSE CharAt(s, 1))
         \o Upper(SubSeq(s, 2, Len(s)))

\* One terabyte in gigabytes: "capacity * 1024".
GbPerTb == 1024

\* DirectBasketAnalyzer.extract_specifications: the dict it returns.  Floats
\* are in hundredths, ints are plain.
ExtractSpecifications(description) ==
    LET desc_lower == Lower(description)
        cpu_match == CpuMatch(desc_lower)
        memory_match == MemoryMatch(desc_lower)
        storage_match == StorageMatch(desc_lower)
        form_factor_match == FormFactorMatch(desc_lower)
        capacity == ParseFloat(storage_match.g1).val
    IN  IF description = "" THEN NoSpecs
        ELSE [cores |-> IF cpu_match.m THEN IntAttr(DigitsVal(cpu_match.g1)) ELSE Absent,
              frequency_ghz |->
                  IF cpu_match.m THEN IntAttr(ParseFloat(cpu_match.g2).val) ELSE Absent,
              capacity_gb |->
                  IF memory_match.m THEN IntAttr(DigitsVal(memory_match.g1)) ELSE Absent,
              memory_type |->
                  IF memory_match.m THEN StrAttr("DDR" \o memory_match.g2) ELSE Absent,
              storage_capacity_gb |->
                  IF storage_match.m
                  THEN IntAttr(IF Upper(storage_match.g2) = "TB"
                               THEN capacity * GbPerTb ELSE capacity)
                  ELSE Absent,
              storage_type |->
                  IF storage_match.m THEN StrAttr(Upper(storage_match.g3)) ELSE Absent,
              rack_units |->
                  IF form_factor_match.m THEN IntAttr(DigitsVal(form_factor_match.g1))
                  ELSE Absent,
              form_factor |->
                  IF form_factor_match.m THEN StrAttr(form_factor_match.g1 \o "U Rack")
                  ELSE Absent]

\* Group 1 of re.search of (\d+) followed by the literal lit.
DigitsBefore(s, lit) ==
    LET starts == {i \in 1..Len(s) : DigitAt(s, i) /\ LitAt(s, DigitsEnd(s, i) + 1, lit)}
        i == MinOf(starts)
    IN  IF starts = {} THEN [m |-> FALSE, g1 |-> ""]
        ELSE [m |-> TRUE, g1 |-> SubSeq(s, i, DigitsEnd(s, i))]

\* re.search(r'(\d+\.?\d*)ghz', desc_lower)
FreqMatch(s) ==
    LET starts == {i \in 1..Len(s) : DigitAt(s, i) /\ LitAt(s, DecimalEnd(s, i) + 1, "ghz")}
        i == MinOf(starts)
    IN  IF starts = {} THEN [m |-> FALSE, g1 |-> ""]
        ELSE [m |-> TRUE, g1 |-> SubSeq(s, i, DecimalEnd(s, i))]

\* Last index of the match of (\d+)/?(\d+)?gbe that starts at the digit at i,
\* 0 when there is none.
SpeedEnd(s, i) ==
    LET e1 == DigitsEnd(s, i)
        p == IF LitAt(s, e1 + 1, "/") THEN e1 + 2 ELSE e1 + 1
        q == p + LeadingDigits(SubSeq(s, p, Len(s)))
    IN  IF LitAt(s, q, "gbe") THEN q + 2 ELSE 0

\* group(0) of re.search(r'(\d+)/?(\d+)?gbe', desc_lower)
SpeedMatch(s) ==
    LET starts == {i \in 1..Len(s) : DigitAt(s, i) /\ SpeedEnd(s, i) # 0}
        i == MinOf(starts)
    IN  IF starts = {} THEN [m |-> FALSE, g0 |-> ""]
        ELSE [m |-> TRUE, g0 |-> SubSeq(s, i, SpeedEnd(s, i))]

\* The component branch of test_enhanced_lenovo_parsing: the type it prints
\* (without its pictogram) and the extracted_info string.
AnalyzeComponent(desc) ==
    LET desc_lower == Lower(desc)
        core_match == DigitsBefore(desc_lower, "c ")
        freq_match == FreqMatch(desc_lower)
        gb_match == DigitsBefore(desc_lower, "gb")
        speed_match == SpeedMatch(desc_lower)
        cores == IF Contains(desc_lower, "c ") /\ core_match.m
                 THEN core_match.g1 \o "C" ELSE "Unknown"
        freq == IF Contains(desc_lower, "ghz") /\ freq_match.m
                THEN freq_match.g1 \o "GHz" ELSE "Unknown"
    IN  IF Contains(desc_lower, "chassis")
        THEN [component_type |-> "Chassis",
              extracted_info |-> IF Contains(desc_lower, "1u") THEN "Form Factor: 1U"
                                 ELSE IF Contains(desc_lower, "2u") THEN "Form Factor: 2U"
                                 ELSE ""]
        ELSE IF Contains(desc_lower, "xeon") \/ Contains(desc_lower, "processor")
        THEN [component_type |-> "CPU",
              extracted_info |-> "Cores: " \o cores \o ", Freq: " \o freq]
        ELSE IF Contains(desc_lower, "dimm") \/ Contains(desc_lower, "ddr5")
        THEN [component_type |-> "Memory",
              extracted_info |-> IF gb_match.m THEN "Capacity: " \o gb_match.g1 \o "GB"
                                 ELSE ""]
        ELSE IF Contains(desc_lower, "ssd") \/ Contains(desc_lower, "nvme")
        THEN [component_type |-> "Storage",
              extracted_info |-> IF gb_match.m THEN "Capacity: " \o gb_match.g1 \o "GB"
                                 ELSE ""]
        ELSE IF Contains(desc_lower, "ethernet") \/ Contains(desc_lower, "gbe")
        THEN [component_type |-> "Network",
              extracted_info |-> IF speed_match.m THEN "Speed: " \o Upper(speed_match.g0)
                                 ELSE ""]
        ELSE [component_type |-> "Unknown", extracted_info |-> ""]

\* detect_type_category of ServerSpecProcessor: the chain of tests, in order.
DetectTypeCategory(desc, part_number) ==
    LET desc_l == Lower(desc)
        part_l == Lower(part_number)
    IN  IF AnyIn(<<"thinkstation", "thinksystem", "poweredge", "proliant">>, desc_l)
        THEN [type |-> "server", category |-> "Server"]
        ELSE IF \/ AnyIn(<<"xeon", "epyc", "processor", "cpu">>, desc_l)
                \/ AnyIn(<<"cpu", "proc">>, part_l)
        THEN [type |-> "processor", category |-> "CPU"]
        ELSE IF \/ AnyIn(<<"dimm", "tru", "memory", "dram", "ram">>, desc_l)
                \/ AnyIn(<<"mem", "dimm", "ram">>, part_l)
        THEN [type |-> "memory", category |-> "Memory"]
        ELSE IF \/ AnyIn(<<"ssd", "hdd", "nvme", "drive", "storage", "disk">>, desc_l)
                \/ AnyIn(<<"ssd", "hdd", "drive">>, part_l)
        THEN [type |-> "storage", category |-> "Storage"]
        ELSE IF \/ AnyIn(<<"ethernet", "broadcom", "intel", "network", "nic", "10gbe",
                           "25gbe", "gigabit">>, desc_l)
                \/ AnyIn(<<"eth", "nic", "net">>, part_l)
        THEN [type |-> "network", category |-> "Network"]
        ELSE IF \/ AnyIn(<<"power supply", "psu", "power">>, desc_l)
                \/ AnyIn(<<"psu", "power">>, part_l)
        THEN [type |-> "power", category |-> "Power"]
        ELSE IF \/ AnyIn(<<"raid", "controller", "storage controller">>, desc_l)
                \/ AnyIn(<<"raid", "ctrl">>, part_l)
        THEN [type |-> "controller", category |-> "RAID"]
        ELSE IF \/ AnyIn(<<"cable", "transceiver", "connector">>, desc_l)
                \/ AnyIn(<<"cable", "conn">>, part_l)
        THEN [type |-> "cable", category |-> "Cable"]
        ELSE IF AnyIn(<<"warranty", "service", "support", "professional services">>,
                      desc_l)
        THEN [type |-> "service", category |-> "Service"]
        ELSE IF AnyIn(<<"upgrade", "option", "kit">>, desc_l)
        THEN [type |-> "option", category |-> "Option"]
        ELSE [type |-> "component", category |-> "Component"]

-----------------------------------------------------------------------------
(* Calls of the extractors, the classifier and the enricher. *)

\* Price cells as they are written in quotation sheets.
PriceStrings ==
    {"", " ", "N/A", "n/a", "TBD", "Contact", "varies", "unknown", "null",
     "None", "0", "0.00", "-5", "-12.50", "$0", "$-5", "1234.56", "$1,234.56",
     "1,234", "2850", "2850.0", "1234.56 USD", "USD 1234.56", "EUR 99",
     "99 EUR", "0 USD 5", "abc", "call us", "1.2.3", "$", ",", "12 pcs", "+7",
     "  42  ", "3100.5", "USD", "99 USD", "1234.56 EUR", "$99"}

PriceNumbers == {0, -500, 285000, 45000}

\* Component descriptions and part numbers of the Lenovo price lists.
Descriptions ==
    {"", "Intel Xeon Silver 4410T 10C 150W 2.7GHz", "16GB TruDDR5",
     "32GB TruDDR4 Memory DIMM", "960GB NVMe SSD",
     "Broadcom 57414 10/25GbE SFP28 2-Port", "ThinkSystem RAID 940-8i Controller",
     "RAID 530-8i controller", "750W Power Supply", "3yr Warranty Service",
     "Performance Fan", "ThinkSystem SR630 V3 Server", "Storage controller",
     "Rail Kit", "Intel Xeon Gold 16 cores 2.1GHz", "Intel Xeon Gold processor",
     "1.92TB SATA SSD", "ThinkSystem SR650 2U Rack Server", "RAID controller",
     "SSD RAID Controller Kit"}

PartNumbers == {"", "SMI1", "BPQA", "7D73CTO1WW", "sma12b"}

\* Basket items as the backend returns them.
BasketItems ==
    {[description |-> d, model_name |-> "SR650", part_number |-> p, type |-> t,
      category |-> IF t = "Server" THEN "Hardware" ELSE "",
      price |-> pr, unit_price_usd |-> Empty,
      specifications |-> sp, base_specifications |-> "{}"] :
        d \in {"SMI1 - Intel - 1 Proc - Small Rack Server", "ThinkSystem SR630 V3",
               "Rack Server", ""},
        p \in {"SMI1", ""},
        t \in {"", "Server", "N/A"},
        pr \in {Empty, Num(285000), Txt("N/A")},
        sp \in {"{}", "{'memory': '32GB'}"}}

CallExtractPrice ==
    /\ pc = "leaf"
    /\ call = NoCall
    /\ \E s \in PriceStrings :
        /\ call' = [op |-> "extract_price", cell |-> Txt(s), part |-> ""]
        /\ ret' = [NoRet EXCEPT !.done = TRUE, !.price = ExtractPrice(s)]
    /\ UNCHANGED <<df, idx, pc, now, corrected_models, current_server, returned,
                   first_run, run, enhancedVars, parVars,
                   routerVars, otherVars, item, enriched>>

CallExtractPriceValue ==
    /\ pc = "leaf"
    /\ call = NoCall
    /\ \E c \in {Txt(s) : s \in PriceStrings} \cup {Num(n) : n \in PriceNumbers} :
        /\ call' = [op |-> "extract_price_value", cell |-> c, part |-> ""]
        /\ ret' = [NoRet EXCEPT !.done = TRUE, !.price = ExtractPriceValue(c)]
    /\ UNCHANGED <<df, idx, pc, now, corrected_models, current_server, returned,
                   first_run, run, enhancedVars, parVars,
                   routerVars, otherVars, item, enriched>>

CallSafeFloat ==
    /\ pc = "leaf"
    /\ call = NoCall
    /\ \E c \in {Txt(s) : s \in PriceStrings} \cup {Num(n) : n \in PriceNumbers} :
        /\ call' = [op |-> "_safe_float", cell |-> c, part |-> ""]
        /\ ret' = [NoRet EXCEPT !.done = TRUE, !.price = SafeFloat(c)]
    /\ UNCHANGED <<df, idx, pc, now, corrected_models, current_server, returned,
                   first_run, run, enhancedVars, parVars,
                   routerVars, otherVars, item, enriched>>

CallClassifyComponent ==
    /\ pc = "leaf"
    /\ call = NoCall
    /\ \E d \in Descriptions, p \in PartNumbers :
        /\ call' = [op |-> "classify_component", cell |-> Txt(d), part |-> p]
        /\ ret' = [NoRet EXCEPT !.done = TRUE,
                                !.type = ClassifyComponent(d, p).type,
                                !.category = ClassifyComponent(d, p).category]
    /\ UNCHANGED <<df, idx, pc, now, corrected_models, current_server, returned,
                   first_run, run, enhancedVars, parVars,
                   routerVars, otherVars, item, enriched>>

CallClassifyComponentType ==
    /\ pc = "leaf"
    /\ call = NoCall
    /\ \E d \in Descriptions :
        /\ call' = [op |-> "_classify_component_type", cell |-> Txt(d), part |-> ""]
        /\ ret' = [NoRet EXCEPT !.done = TRUE, !.type = ClassifyComponentType(d)]
    /\ UNCHANGED <<df, idx, pc, now, corrected_models, current_server, returned,
                   first_run, run, enhancedVars, parVars,
                   routerVars, otherVars, item, enriched>>

EnrichBasketItem ==
    /\ pc = "leaf"
    /\ call = NoCall
    /\ \E it \in BasketItems :
        /\ call' = [op |-> "enrich_basket_item", cell |-> Empty, part |-> ""]
        /\ item' = it
        /\ enriched' = <<EnrichedItem(it)>>
    /\ UNCHANGED <<df, idx, pc, now, corrected_models, current_server, returned,
                   first_run, run, enhancedVars, parVars,
                   routerVars, otherVars, ret>>

CallExtractSpecifications ==
    /\ pc = "leaf"
    /\ call = NoCall
    /\ \E d \in Descriptions :
        /\ call' = [op |-> "extract_specifications", cell |-> Txt(d), part |-> ""]
        /\ ret' = [NoRet EXCEPT !.done = TRUE, !.specs = ExtractSpecifications(d)]
    /\ UNCHANGED <<df, idx, pc, now, corrected_models, current_server, returned,
                   first_run, run, enhancedVars, parVars,
                   routerVars, otherVars, item, enriched>>

\* One component row of the loop of test_enhanced_lenovo_parsing; a blank
\* description is not analysed.
CallAnalyzeComponent ==
    /\ pc = "leaf"
    /\ call = NoCall
    /\ \E d \in Descriptions :
        /\ d # "" /\ Strip(d) # ""
        /\ call' = [op |-> "analyze_component", cell |-> Txt(d), part |-> ""]
        /\ ret' = [NoRet EXCEPT !.done = TRUE,
                                !.type = AnalyzeComponent(d).component_type,
                                !.info = AnalyzeComponent(d).extracted_info]
    /\ UNCHANGED <<df, idx, pc, now, corrected_models, current_server, returned,
                   first_run, run, enhancedVars, parVars,
                   routerVars, otherVars, item, enriched>>

CallDetectTypeCategory ==
    /\ pc = "leaf"
    /\ call = NoCall
    /\ \E d \in Descriptions, p \in PartNumbers :
        /\ call' = [op |-> "detect_type_category", cell |-> Txt(d), part |-> p]
        /\ ret' = [NoRet EXCEPT !.done = TRUE,
                                !.type = DetectTypeCategory(d, p).type,
                                !.category = DetectTypeCategory(d, p).category]
    /\ UNCHANGED <<df, idx, pc, now, corrected_models, current_server, returned,
                   first_run, run, enhancedVars, parVars,
                   routerVars, otherVars, item, enriched>>

InitLeaf ==
    /\ df = <<>>
    /\ pc = "leaf"
    /\ IdleCorrected
    /\ IdleEnhanced
    /\ IdleLeaf
    /\ IdlePar
    /\ IdleRouter
    /\ IdleOther

NextLeaf ==
    \/ CallExtractPrice
    \/ CallExtractPriceValue
    \/ CallSafeFloat
    \/ CallClassifyComponent
    \/ CallClassifyComponentType
    \/ CallDetectTypeCategory
    \/ CallExtractSpecifications
    \/ CallAnalyzeComponent
    \/ EnrichBasketItem

SpecLeaf == InitLeaf /\ [][NextLeaf]_vars

-----------------------------------------------------------------------------
(* Properties of the header locator and of parse_lenovo_server_lots. *)

\* Indices of the rows _find_header_row looks at.
ScannedRows == 0..(Min(HeaderScanRows, Len(df)) - 1)
Score(i) == HeaderMatches(Row(df, i))
Qualifying == {i \in ScannedRows : Score(i) >= MinHeaderMatches}

\* C6: a parse of a sheet in which no scanned row has at least 3
\* header-keyword matches stops before the data: no row is visited, no model
\* is built or returned.
C6_NoHeaderNoModels ==
    (pc \in {"corrected", "done"} /\ Qualifying = {}) =>
        /\ idx = HeaderRowFixed + 1
        /\ corrected_models = <<>>
        /\ current_server = <<>>
        /\ returned = <<>>

\* C7: the header row is a scanned row of the highest score, the lowest index
\* among those sharing it.
C7_HighestScoreWins ==
    (pc # "enh_start" /\ header_row # -1) =>
        /\ \A j \in ScannedRows : Score(j) <= Score(header_row)
        /\ \A j \in ScannedRows : Score(j) = Score(header_row) => header_row <= j

\* C8: a finished parse whose header row lacks a description column or any
\* price column did not complete as a success.
C8_MissingColumnIsAnError ==
    (/\ pc = "done"
     /\ header_row # -1
     /\ \/ analysis.desc_col = -1
        \/ analysis.usd_price_cols \cup analysis.eur_price_cols = {}) =>
        outcome # "ok"

\* C9: once the header is found, a finished parse returns the models it built,
\* whatever the data rows hold.
C9_BadRowNeverAborts ==
    (pc = "done" /\ header_row # -1) =>
        /\ outcome = "ok"
        /\ Len(returned) = Len(models)
        /\ (current_model # <<>> => Len(returned) >= 1)

-----------------------------------------------------------------------------
(* Properties of the extractors, the classifier and the enricher. *)

\* C2: the price of an enriched basket item is absent or the price the item
\* came with; the description and the specification text never set it.
C2_PriceOnlyFromPriceCell ==
    enriched # <<>> =>
        \/ ~Truthy(enriched[1].price)
        \/ enriched[1].price = Txt("N/A")
        \/ enriched[1].price = item.price

\* The rules of the table that match a classify_component call.
MatchingRules ==
    {k \in 1..Len(component_classification) :
        RuleMatches(component_classification[k], Lower(call.cell.s), call.part)}

ComponentTypes ==
    {component_classification[k].type : k \in 1..Len(component_classification)}
        \cup {"component"}

\* The keyword lists of _classify_component_type, in the order of its tests.
CorrectedTypeRules ==
    <<[type |-> "processor",
       keywords |-> <<"processor", "cpu", "intel", "amd", "xeon", "epyc">>],
      [type |-> "memory", keywords |-> <<"memory", "ram", "gb", "dimm", "truddr">>],
      [type |-> "storage",
       keywords |-> <<"storage", "disk", "ssd", "hdd", "drive", "raid", "nvme">>],
      [type |-> "network",
       keywords |-> <<"network", "ethernet", "nic", "adapter", "broadcom">>]>>

CorrectedMatchingRules ==
    {k \in 1..Len(CorrectedTypeRules) :
        AnyIn(CorrectedTypeRules[k].keywords, Lower(call.cell.s))}

\* C5: a classifier returns, for every description and part number, one type:
\* that of the first rule, in table order, that matches, and the generic type
\* when no rule matches ("component" with category "Hardware" for
\* classify_component, spelled "other" by _classify_component_type).
C5_FirstMatchOrComponent ==
    /\ (ret.done /\ call.op = "classify_component") =>
        /\ ret.type \in ComponentTypes
        /\ IF MatchingRules = {}
           THEN ret.type = "component" /\ ret.category = "Hardware"
           ELSE \E k \in MatchingRules :
                   /\ \A j \in MatchingRules : k <= j
                   /\ ret.type = component_classification[k].type
                   /\ ret.category = component_classification[k].category
    /\ (ret.done /\ call.op = "_classify_component_type") =>
        IF CorrectedMatchingRules = {} THEN ret.type = "other"
        ELSE \E k \in CorrectedMatchingRules :
                /\ \A j \in CorrectedMatchingRules : k <= j
                /\ ret.type = CorrectedTypeRules[k].type

\* A description that two rules match was given the type of the earlier one.
C5_Witness ==
    /\ ret.done
    /\ call.op = "classify_component"
    /\ call.part = ""
    /\ Cardinality(MatchingRules) >= 2
    /\ ret.type = "storage"

\* The number an input stands for once the currency symbol, the blanks and the
\* thousands separators are taken away.
LiteralValue(c) ==
    IF c.num THEN SomeFloat(c.n)
    ELSE ParseFloat(RemoveChar(RemoveChar(c.s, "$"), ","))

PriceExtractors == {"extract_price", "extract_price_value", "_safe_float"}

\* C10: a price extractor returns nothing for a sentinel and for an input that
\* stands for zero or a negative number, and a returned price is positive.
C10_NonPositiveIsAbsent ==
    (ret.done /\ call.op \in PriceExtractors) =>
        /\ (~call.cell.num /\ Lower(Strip(call.cell.s)) \in {"n/a", "tbd", "contact", ""})
               => ~ret.price.ok
        /\ (LiteralValue(call.cell).ok /\ LiteralValue(call.cell).val <= 0)
               => ~ret.price.ok
        /\ ret.price.ok => ret.price.val > 0

\* The currency an input names: a code in any letter case, or the dollar sign.
CurrencyNamed(s) ==
    IF Contains(Lower(s), "eur") THEN "EUR"
    ELSE IF Contains(Lower(s), "usd") \/ Contains(s, "$") THEN "USD"
    ELSE "none"

\* The input without its letters, blanks, dollar signs and thousands separators.
RECURSIVE AmountText(_)
AmountText(s) ==
    IF s = "" THEN ""
    ELSE (IF IsDigit(CharAt(s, 1)) \/ CharAt(s, 1) \in {".", "-", "+"}
          THEN CharAt(s, 1) ELSE "")
         \o AmountText(SubSeq(s, 2, Len(s)))

\* The amount an input is written for.
AmountOf(s) == ParseFloat(AmountText(s))

\* C11: two inputs that name the same positive amount in the same currency,
\* whatever the notation, give the same result, and the result tells the
\* currency: inputs naming different currencies never give the same result.
C11_SameAmountAndCurrency ==
    (/\ ret.done
     /\ call.op = "extract_price"
     /\ CurrencyNamed(call.cell.s) # "none"
     /\ AmountOf(call.cell.s).ok
     /\ AmountOf(call.cell.s).val > 0) =>
        \A s \in PriceStrings :
            (CurrencyNamed(s) # "none" /\ AmountOf(s) = AmountOf(call.cell.s)) =>
                /\ ret.price.ok
                /\ (CurrencyNamed(s) = CurrencyNamed(call.cell.s)
                        => ExtractPrice(s) = ret.price)
                /\ (ExtractPrice(s) = ret.price
                        => CurrencyNamed(s) = CurrencyNamed(call.cell.s))

\* The notation half of C11 alone: same amount and currency, same result.
C11_SameNotationSameAmount ==
    (/\ ret.done
     /\ call.op = "extract_price"
     /\ CurrencyNamed(call.cell.s) # "none"
     /\ AmountOf(call.cell.s).ok
     /\ AmountOf(call.cell.s).val > 0) =>
        \A s \in PriceStrings :
            (/\ CurrencyNamed(s) = CurrencyNamed(call.cell.s)
             /\ AmountOf(s) = AmountOf(call.cell.s)) =>
                ExtractPrice(s) = ret.price /\ ret.price = AmountOf(s)

-----------------------------------------------------------------------------
(* Lot rows without a price. *)

\* A data row that describes a lot and whose USD price cell is the sentinel.
IsNoPriceLotRow(i) ==
    /\ ~IsBlankRow(i)
    /\ \/ AnyIn(server_indicators, Lower(RowDesc(i)))
       \/ AnyIn(server_patterns, Lower(RowDesc(i)))
    /\ Lower(StrCell(Row(df, i), usd_price_col)) = "n/a"

\* C12: every lot row whose price cell is "N/A" has, in the finished parse, a
\* model of its own, seeded from the row and without a price.
C12_NoPriceLotHasModel ==
    pc = "done" =>
        \A j \in 1..Len(DataIdx) :
            IsNoPriceLotRow(DataIdx[j]) =>
                \E k \in 1..Len(returned) :
                    /\ returned[k].lot_description = RowDesc(DataIdx[j])
                    /\ returned[k].model_number = RowPart(DataIdx[j])
                    /\ returned[k].price_5yr_psp = ""
                    /\ returned[k].all_prices.usd = "N/A"

-----------------------------------------------------------------------------
(* Properties of specification extraction. *)

Broadcom25GbE == "Broadcom 57414 10/25GbE SFP28 2-Port"

\* C13: the line "Broadcom 57414 10/25GbE SFP28 2-Port" is given the network
\* type by every classifier, and its specification has link_speed "25GbE" and
\* ports 2.
C13_BroadcomIsNetworkWithSpeedAndPorts ==
    (ret.done /\ call.cell = Txt(Broadcom25GbE)) =>
        /\ (call.op = "classify_component" /\ call.part = "") => ret.type = "network"
        /\ call.op = "_classify_component_type" => ret.type = "network"
        /\ call.op = "analyze_component" =>
               ret.type = "Network" /\ ret.info = "Speed: 25GbE"
        /\ call.op = "extract_specifications" =>
               /\ "link_speed" \in DOMAIN ret.specs
               /\ ret.specs["link_speed"] = StrAttr("25GbE")
               /\ "ports" \in DOMAIN ret.specs
               /\ ret.specs["ports"] = IntAttr(2)

\* The keys of the returned dict.
SpecKeys(specs) == {k \in DOMAIN specs : specs[k].present}

\* C15: an extracted attribute is there only when the text its pattern looks
\* for is in the description, a description without such text gives the
\* empty specification, and no result holds the placeholder "Unknown".
C15_NoInventedValue ==
    /\ (ret.done /\ call.op = "extract_specifications") =>
        LET d == Lower(call.cell.s)
            keys == SpecKeys(ret.specs)
        IN  /\ keys \cap {"cores", "frequency_ghz"} # {} =>
                   Contains(d, "core") /\ Contains(d, "ghz")
            /\ keys \cap {"capacity_gb", "memory_type"} # {} =>
                   Contains(d, "gb") /\ Contains(d, "ddr")
            /\ keys \cap {"storage_capacity_gb", "storage_type"} # {} =>
                   /\ Contains(d, "tb") \/ Contains(d, "gb")
                   /\ Contains(d, "ssd") \/ Contains(d, "hdd")
            /\ keys \cap {"rack_units", "form_factor"} # {} =>
                   Contains(d, "u rack") \/ Contains(d, "urack")
                       \/ Contains(d, "u server") \/ Contains(d, "userver")
            /\ (\A i \in 1..Len(d) : ~DigitAt(d, i)) => ret.specs = NoSpecs
            /\ \A k \in keys : ret.specs[k].s # "Unknown"
    /\ (ret.done /\ call.op = "analyze_component") =>
        ~Contains(ret.info, "Unknown")

\* Position of the rule of a type in the rule table of classify_component.
RuleIndex(type) ==
    CHOOSE k \in 1..Len(component_classification) :
        component_classification[k].type = type

\* C14: the RAID rule stands before the storage rule in the rule table, and
\* every description containing "RAID controller" is given the RAID
\* controller type by each classifier.
C14_RaidControllerBeforeStorage ==
    /\ (ret.done /\ call.op = "classify_component") =>
            RuleIndex("raid") < RuleIndex("storage")
    /\ (/\ ret.done
        /\ call.op \in {"classify_component", "detect_type_category",
                        "_classify_component_type"}
        /\ call.part = ""
        /\ Contains(Lower(call.cell.s), "raid controller")) =>
            ret.type \in {"raid", "controller"}

-----------------------------------------------------------------------------
(* Properties of the quantity of a component line. *)

\* The components of the models built so far by parse_lenovo_server_lots.
OutputComponents ==
    LET all == models \o current_model
    IN  UNION {{all[i].components[k] : k \in 1..Len(all[i].components)} :
                  i \in 1..Len(all)}

\* The data rows a component was read from.
RowsOf(c) ==
    {i \in (header_row + 1)..(Len(df) - 1) :
        /\ analysis.part_col # -1 /\ analysis.desc_col # -1
        /\ Strip(CellStr(Iloc(Row(df, i), analysis.part_col))) = c.part_number
        /\ Strip(CellStr(Iloc(Row(df, i), analysis.desc_col))) = c.description}

\* The quantity cell of a row, Empty when the column is not there.
QuantityCell(row) ==
    IF analysis.qty_col = -1 \/ analysis.qty_col >= Len(row) THEN Empty
    ELSE Iloc(row, analysis.qty_col)

\* C17: every component line of the output has an integer quantity of at
\* least 1: it is 1 when the quantity cell is missing, empty, not a number or
\* 0, and it is n when the cell holds the positive integer n.
C17_QuantityIsPositiveInteger ==
    \A c \in OutputComponents :
        /\ c.quantity \in Nat \ {0}
        /\ \A i \in RowsOf(c) :
            LET cell == QuantityCell(Row(df, i))
            IN  /\ (\/ cell = Empty
                    \/ cell.num /\ cell.n = 0
                    \/ ~cell.num /\ ~ParseFloat(cell.s).ok) => c.quantity = 1
                /\ (cell.num /\ cell.n >= 100 /\ cell.n % 100 = 0) =>
                        c.quantity = cell.n \div 100

-----------------------------------------------------------------------------
(* LLMRouter (archer-ai-engine, llm_gateway/router.py): the adapter cache.  *)
(* An adapter instance is the number of its construction (1, 2, ...); None  *)
(* and the empty string, which "provider or self.default_provider" treats   *)
(* alike, are both "".  An API key is modelled by whether it is set.        *)

\* The providers _initialize_adapter knows.
Providers == {"ollama", "openai", "anthropic"}

\* The values of Settings.llm_provider: "gemini" is a legal setting for
\* which the router has no branch.
DefaultProviders == Providers \cup {"gemini"}

\* The arguments get_adapter is called with.
ProviderArguments == Providers \cup {"", "gemini", "invalid_provider"}

\* "provider or self.default_provider" (l.93).
EffectiveProvider(provider) ==
    IF provider # "" THEN provider ELSE settings.llm_provider

\* The branches of _initialize_adapter that raise ConfigurationException
\* (l.48-53, 59-64, 76-80).
RaisesConfigurationException(provider) ==
    \/ provider = "openai" /\ ~settings.openai_api_key
    \/ provider = "anthropic" /\ ~settings.anthropic_api_key
    \/ provider \notin Providers

\* A lookup that never finds the provider.
NeverCached(inst, provider) == FALSE

\* "provider not in self._instances" (l.95), negated.
Cached(inst, provider) == provider \in DOMAIN inst

\* self._instances[provider] = adapter
Store(inst, provider, adapter) ==
    [q \in DOMAIN inst \cup {provider} |->
        IF q = provider THEN adapter ELSE inst[q]]

\* One call of get_adapter.  The constructor called by _initialize_adapter
\* either returns a new adapter or raises (OpenAIAdapter and AnthropicAdapter
\* as they stand take a Settings object, not the keyword arguments of l.54-57
\* and l.65-68); an exception leaves get_adapter before the assignment of
\* l.96, so nothing is stored.
GetAdapter ==
    /\ pc = "router"
    /\ \E argument \in ProviderArguments :
        LET provider == EffectiveProvider(argument)
            call_made == [NoResult EXCEPT !.done = TRUE, !.argument = argument]
        IN  IF Cached(instances, provider)
            THEN /\ result' = [call_made EXCEPT !.adapter = instances[provider],
                                                !.hit = TRUE]
                 /\ UNCHANGED <<instances, created>>
            ELSE IF RaisesConfigurationException(provider)
            THEN /\ result' = [call_made EXCEPT
                                  !.raised = "ConfigurationException"]
                 /\ UNCHANGED <<instances, created>>
            ELSE \E constructed \in BOOLEAN :
                    IF constructed
                    THEN /\ created' = created + 1
                         /\ instances' = Store(instances, provider, created')
                         /\ result' = [call_made EXCEPT !.adapter = created']
                    ELSE /\ result' = [call_made EXCEPT !.raised = "Exception"]
                         /\ UNCHANGED <<instances, created>>
    /\ UNCHANGED <<df, idx, pc, now, corrected_models, current_server, returned,
                   first_run, run, enhancedVars, leafVars, parVars, otherVars, settings>>

\* LLMRouter.__init__ (l.25-34) on any settings.
InitRouter ==
    /\ df = <<>>
    /\ pc = "router"
    /\ settings \in [llm_provider : DefaultProviders,
                     openai_api_key : BOOLEAN, anthropic_api_key : BOOLEAN]
    /\ instances = EmptyDict
    /\ created = 0
    /\ result = NoResult
    /\ IdleCorrected
    /\ IdleEnhanced
    /\ IdleLeaf
    /\ IdlePar
    /\ IdleOther

NextRouter == GetAdapter

SpecRouter == InitRouter /\ [][NextRouter]_vars

-----------------------------------------------------------------------------
(* Properties of the end of the row loop. *)

\* The models parse_lenovo_server_lots has started: the finished ones and the
\* one it is collecting components for.
StartedModels ==
    LET all == models \o current_model
    IN  {all[i] : i \in 1..Len(all)}

\* C19: every model started by a lot row is output: once the parse is over
\* nothing started is left out of the returned list, and the model of the
\* last lot is the last one returned, with all its components.
C19_StartedModelsAreOutput ==
    (pc = "done" /\ header_row # -1) =>
        /\ \A m \in StartedModels : \E k \in 1..Len(returned) : returned[k] = m
        /\ current_model # <<>> =>
               /\ returned # <<>>
               /\ returned[Len(returned)] = current_model[1]

-----------------------------------------------------------------------------
(* Properties of the grouper before the first lot. *)

\* No lot row has been seen: nothing is finished and nothing is in progress.
GrouperIdle == corrected_models = <<>> /\ current_server = <<>>

\* C20: while no lot row has been seen, a loop iteration on a row that is not
\* a lot row (a server description without a price, a component line, a
\* blank row) creates no model, outputs nothing and adds no component: the
\* accumulator is as it was and the grouper is still idle.
C20_IdleSkipsNonLotRows ==
    [][(/\ pc = "corrected"
        /\ idx < Len(df)
        /\ GrouperIdle
        /\ ~IsLotRow(idx)) =>
            /\ corrected_models' = <<>>
            /\ current_server' = <<>>
            /\ returned' = returned
            /\ pc' = "corrected"]_vars

\* The loop has passed a component line and a server description without a
\* price, and no lot row, and is still idle.
C20_Witness ==
    /\ pc = "corrected"
    /\ GrouperIdle
    /\ \E i, j \in HeaderRowFixed + 1 .. idx - 1 :
        /\ Row(df, i) = CpuRow
        /\ Row(df, j) = LotNoPrice
    /\ \A i \in HeaderRowFixed + 1 .. idx - 1 : ~IsLotRow(i)

-----------------------------------------------------------------------------
(* prototype_lenovo_parser and finalize_lenovo_model: the Python prototype  *)
(* kept as text in create_enhanced_lenovo_parser.py (l.228-350).  The       *)
(* sheet is read without fillna, so an empty cell is NaN: its text is "",   *)
(* its price 0 and its quantity 1.  None in 'server_description' is "",     *)
(* which "x or y" treats as it treats None.                                 *)

\* str(row[c]) if pd.notna(row[c]) else ""
ProtoText(row, c) ==
    IF Iloc(row, c) = Empty THEN "" ELSE CellStr(Iloc(row, c))

\* row[4] if it is a number, else 0 (in hundredths).
ProtoPrice(row) == IF Iloc(row, 4).num THEN Iloc(row, 4).n ELSE 0

\* row[3] if pd.notna(row[3]) else 1
ProtoQuantity(row) == IF Iloc(row, 3) = Empty THEN Num(100) ELSE Iloc(row, 3)

\* "len(part_num) >= 8 and price_usd > 1000"
ProtoIsLotRow(row) ==
    Len(ProtoText(row, 1)) >= 8 /\ ProtoPrice(row) > 100000

\* s.startswith(p)
StartsWith(s, p) == Len(p) <= Len(s) /\ SubSeq(s, 1, Len(p)) = p

\* lot_id.split('_')[0] if '_' in lot_id else lot_id[:4]
LotPrefix(lot_id) ==
    IF Contains(lot_id, "_") THEN SubSeq(lot_id, 1, Find(lot_id, "_") - 1)
    ELSE SubSeq(lot_id, 1, Min(4, Len(lot_id)))

\* The test of l.267: the row is the server model description of the lot.
ProtoIsServerDescription(lot, desc) == StartsWith(desc, LotPrefix(lot.lot_id))

\* The dict of a new lot (l.259-264).
NewLot(row) ==
    [lot_id |-> ProtoText(row, 1), lot_description |-> ProtoText(row, 2),
     price |-> ProtoPrice(row), server_description |-> ""]

\* "current_lot['server_description'] = desc" (l.269).
SetServerDescription(lot, desc) == [lot EXCEPT !.server_description = desc]

\* extract_form_factor_python
ExtractFormFactorPython(description) ==
    LET desc_lower == Lower(description)
    IN  IF Contains(desc_lower, "sr630") THEN "1U"
        ELSE IF Contains(desc_lower, "sr650") THEN "2U"
        ELSE IF Contains(desc_lower, "sr645") THEN "1U"
        ELSE IF Contains(desc_lower, "1u") THEN "1U"
        ELSE IF Contains(desc_lower, "2u") THEN "2U"
        ELSE IF Contains(desc_lower, "4u") THEN "4U"
        ELSE "1U"

\* extract_chassis_form_factor_python
ExtractChassisFormFactorPython(description) ==
    LET desc_lower == Lower(description)
    IN  IF Contains(desc_lower, "1u") THEN "1U"
        ELSE IF Contains(desc_lower, "2u") THEN "2U"
        ELSE IF Contains(desc_lower, "4u") THEN "4U"
        ELSE "1U"

\* s.strip('; ')
RECURSIVE StripSeparators(_)
StripSeparators(s) ==
    IF s = "" THEN s
    ELSE IF CharAt(s, 1) \in {";", " "}
    THEN StripSeparators(SubSeq(s, 2, Len(s)))
    ELSE IF CharAt(s, Len(s)) \in {";", " "}
    THEN StripSeparators(SubSeq(s, 1, Len(s) - 1))
    ELSE s

\* str(comp['quantity']): a whole number read from the sheet is an int.
QuantityText(q) ==
    IF ~q.num THEN q.s
    ELSE IF q.n % 100 = 0 THEN ToString(q.n \div 100)
    ELSE FloatStr(q.n)

\* One pass of "for comp in components" (l.301-318).
AnalyzeOne(model, comp) ==
    LET desc == Lower(comp.description)
        with_qty == comp.description \o " x" \o QuantityText(comp.quantity) \o "; "
        m1 == IF Contains(desc, "xeon") \/ Contains(desc, "processor")
              THEN [model EXCEPT !.processor_info = @ \o comp.description \o "; "]
              ELSE model
        m2 == IF \/ Contains(desc, "dimm")
                 \/ Contains(desc, "ddr5")
                 \/ Contains(desc, "gb") /\ Contains(desc, "memory")
              THEN [m1 EXCEPT !.memory_info = @ \o with_qty]
              ELSE m1
        m3 == IF \/ Contains(desc, "ssd")
                 \/ Contains(desc, "nvme")
                 \/ Contains(desc, "storage")
              THEN [m2 EXCEPT !.storage_info = @ \o with_qty]
              ELSE m2
        m4 == IF \/ Contains(desc, "ethernet")
                 \/ Contains(desc, "nic")
                 \/ Contains(desc, "gbe")
              THEN [m3 EXCEPT !.network_info = @ \o comp.description \o "; "]
              ELSE m3
    IN  IF /\ Contains(desc, "chassis")
           /\ \/ Contains(desc, "1u")
              \/ Contains(desc, "2u")
              \/ Contains(desc, "4u")
        THEN [m4 EXCEPT !.form_factor =
                 ExtractChassisFormFactorPython(comp.description)]
        ELSE m4

RECURSIVE AnalyzeFrom(_, _, _)
AnalyzeFrom(model, components, k) ==
    IF k > Len(components) THEN model
    ELSE AnalyzeFrom(AnalyzeOne(model, components[k]), components, k + 1)

\* finalize_lenovo_model
FinalizeLenovoModel(lot_info, components) ==
    LET described == IF lot_info.server_description # ""
                     THEN lot_info.server_description
                     ELSE lot_info.lot_description
        model == [lot_id |-> lot_info.lot_id,
                  lot_description |-> lot_info.lot_description,
                  server_description |-> described,
                  form_factor |-> ExtractFormFactorPython(described),
                  processor_info |-> "", memory_info |-> "",
                  storage_info |-> "", network_info |-> "",
                  components |-> components]
        analysed == AnalyzeFrom(model, components, 1)
    IN  [analysed EXCEPT !.processor_info = StripSeparators(@),
                         !.memory_info = StripSeparators(@),
                         !.storage_info = StripSeparators(@),
                         !.network_info = StripSeparators(@)]

\* "if current_lot: models.append(finalize_lenovo_model(...))"
ProtoSave(ms, lot, components) ==
    IF lot # <<>> THEN Append(ms, FinalizeLenovoModel(lot[1], components))
    ELSE ms

\* One iteration of "for i in range(5, len(df))" (l.243-277).
ProtoRow ==
    /\ pc = "proto"
    /\ idx < Len(df)
    /\ LET row == Row(df, idx)
           part_num == ProtoText(row, 1)
           desc == ProtoText(row, 2)
       IN  IF ProtoIsLotRow(row)
           THEN /\ models' = ProtoSave(models, current_lot, current_components)
                /\ current_lot' = <<NewLot(row)>>
                /\ current_components' = <<>>
           ELSE IF current_lot # <<>> /\ ProtoIsServerDescription(current_lot[1], desc)
           THEN /\ current_lot' = <<SetServerDescription(current_lot[1], desc)>>
                /\ UNCHANGED <<models, current_components>>
           ELSE IF current_lot # <<>> /\ desc # "" /\ Strip(desc) # ""
           THEN /\ current_components' =
                    Append(current_components,
                           [part_number |-> part_num, description |-> desc,
                            quantity |-> ProtoQuantity(row)])
                /\ UNCHANGED <<models, current_lot>>
           ELSE UNCHANGED <<models, current_lot, current_components>>
    /\ idx' = idx + 1
    /\ UNCHANGED <<df, pc, now, corrected_models, current_server, returned,
                   first_run, run, header_row, analysis, current_model, outcome,
                   leafVars, parVars, routerVars, pipelineVars, reportVars,
                   payloadVars>>

\* After the loop: the last lot is finalized and the models returned.
ProtoFinish ==
    /\ pc = "proto"
    /\ idx >= Len(df)
    /\ models' = ProtoSave(models, current_lot, current_components)
    /\ returned' = models'
    /\ pc' = "done"
    /\ UNCHANGED <<df, idx, now, corrected_models, current_server, first_run, run,
                   header_row, analysis, current_model, outcome, leafVars,
                   parVars, routerVars, otherVars>>

\* The sheets of the prototype: five rows above the data, then rows of these
\* kinds.  The server model description rows start with the first four
\* characters of the lot number, which is the test of l.267.
ServerDescSR630 ==
    MkRow("", "7D73 ThinkSystem SR630 V3 - 1yr Warranty", Empty, Empty, Empty)
ServerDescSR650 ==
    MkRow("", "7D73 ThinkSystem SR650 V3 - 3yr Warranty", Empty, Empty, Empty)
LotSR645 ==
    MkRow("7D9CCTO1WW", "SMA1 - AMD - Tower", Num(100), Num(310050), Empty)
ProtoPreamble == <<TitleRow, BlankRow, BlankRow, BlankRow, HeaderCells>>
ProtoRowAlphabet ==
    {LotSMI1, LotSR645, ServerDescSR630, ServerDescSR650, CpuRow, MemRow, NicRow,
     BlankRow}
ProtoSheets == UNION {[1..n -> ProtoRowAlphabet] : n \in 0..MaxRows}

InitProto ==
    /\ df \in {ProtoPreamble \o d : d \in ProtoSheets}
    /\ pc = "proto"
    /\ idx = Len(ProtoPreamble)
    /\ corrected_models = <<>>
    /\ current_server = <<>>
    /\ returned = <<>>
    /\ first_run = <<>>
    /\ run = 1
    /\ now = 0
    /\ IdleEnhanced
    /\ IdleLeaf
    /\ IdlePar
    /\ IdleRouter
    /\ IdleOther

NextProto == ProtoRow \/ ProtoFinish

SpecProto == InitProto /\ [][NextProto]_vars

\* The rows of the lot in progress that passed the test of l.267, in order.
ServerDescriptionsOfLot ==
    LET lots == {i \in Len(ProtoPreamble)..(idx - 1) : ProtoIsLotRow(Row(df, i))}
        IsLast(i) == i \in lots /\ \A j \in lots : j <= i
        start == CHOOSE i \in lots : IsLast(i)
        Mine(i) == /\ i > start /\ i < idx
                   /\ ProtoIsServerDescription(current_lot[1],
                                               ProtoText(Row(df, i), 2))
    IN  SelectSeq([k \in 1..Len(df) |-> k - 1], Mine)

\* C21: within a lot the name of the model is the description of the first
\* server description row after the lot row; later server description rows
\* of the lot leave it, and the form factor derived from it, as they were,
\* and neither finish nor restart the model.
C21_FirstServerDescriptionWins ==
    /\ (pc = "proto" /\ current_lot # <<>> /\ ServerDescriptionsOfLot # <<>>) =>
            current_lot[1].server_description =
                ProtoText(Row(df, ServerDescriptionsOfLot[1]), 2)
    /\ (pc = "proto" /\ current_lot # <<>>) =>
            LET first == IF ServerDescriptionsOfLot # <<>>
                         THEN ProtoText(Row(df, ServerDescriptionsOfLot[1]), 2)
                         ELSE current_lot[1].lot_description
                model == FinalizeLenovoModel(current_lot[1], current_components)
            IN  /\ model.server_description = first
                /\ (\A k \in 1..Len(current_components) :
                        ~Contains(Lower(current_components[k].description),
                                  "chassis")) =>
                       model.form_factor = ExtractFormFactorPython(first)

-----------------------------------------------------------------------------
(* The classes of a row in parse_lenovo_correctly.                          *)

\* The server signal of _is_main_server_entry, without its price test.
ServerSignal(description) ==
    /\ description # ""
    /\ \/ AnyIn(server_indicators, Lower(description))
       \/ AnyIn(server_patterns, Lower(description))

\* A row that describes a server and carries no price.
IsServerDescriptionRow(i) ==
    /\ ~IsBlankRow(i)
    /\ ServerSignal(RowDesc(i))
    /\ ~HasPrice(Row(df, i), usd_price_col)

\* The descriptions filed in the component summary of a model.
SummaryDescriptions(m) ==
    UNION {{m.components_summary[t][j] :
                j \in 1..Len(m.components_summary[t])} :
           t \in DOMAIN m.components_summary}

\* C22: a row that describes a server without a price is a server
\* description and nothing else: it is not appended to the components of a
\* model and not counted in a component summary.
C22_ServerDescriptionIsNoComponent ==
    \A k \in 1..Len(Emitted) :
        LET m == Emitted[k]
        IN  \A i \in 0..(idx - 1) :
                (i > HeaderRowFixed /\ IsServerDescriptionRow(i)) =>
                    /\ \A j \in 1..Len(m.full_configurations) :
                           m.full_configurations[j].description # RowDesc(i)
                    /\ RowDesc(i) \notin SummaryDescriptions(m)
                    /\ m.processor_info # RowDesc(i)

-----------------------------------------------------------------------------
(* EnhancedLenovoParser.generate_api_payload, called by main() on the       *)
(* models a parse returned ("if models:", l.405).                           *)

\* ' sep '.join(parts)
RECURSIVE Join(_, _)
Join(parts, sep) ==
    IF parts = <<>> THEN ""
    ELSE IF Len(parts) = 1 THEN parts[1]
    ELSE parts[1] \o sep \o Join(Tail(parts), sep)

\* The descriptions of the components that hold one of the keywords.
Mentioning(components, keywords) ==
    LET Hit(c) == AnyIn(keywords, Lower(c.description))
        hits == SelectSeq(components, Hit)
    IN  [k \in 1..Len(hits) |-> hits[k].description]

\* _classify_component_type of EnhancedLenovoParser
EnhancedClassifyComponentType(description) ==
    IF description = "" THEN "component"
    ELSE LET desc_lower == Lower(description)
         IN  IF AnyIn(<<"processor", "cpu", "intel", "amd">>, desc_lower)
             THEN "processor"
             ELSE IF AnyIn(<<"memory", "ram", "gb", "dimm">>, desc_lower)
             THEN "memory"
             ELSE IF AnyIn(<<"storage", "disk", "ssd", "hdd", "drive">>, desc_lower)
             THEN "storage"
             ELSE IF AnyIn(<<"network", "ethernet", "nic", "adapter">>, desc_lower)
             THEN "network"
             ELSE "component"

\* _extract_processor_info: the first match is returned.
ExtractProcessorInfo(components) ==
    LET found == Mentioning(components, <<"processor", "cpu", "intel", "amd">>)
    IN  IF found = <<>> THEN "" ELSE found[1]

\* _extract_memory_info: every match, joined.
ExtractMemoryInfo(components) ==
    Join(Mentioning(components, <<"memory", "ram", "gb", "dimm">>), "; ")

\* _extract_network_info: every match, joined.
ExtractNetworkInfo(components) ==
    Join(Mentioning(components, <<"network", "ethernet", "nic", "adapter">>), "; ")

\* The configurations of one model (l.298-310); i counts from 0.
Configurations(model) ==
    [k \in 1..Len(model.components) |->
        [id |-> "config_" \o model.id \o "_" \o ToString(k - 1),
         item_type |-> EnhancedClassifyComponentType(model.components[k].description),
         description |-> model.components[k].description,
         raw_data |-> [part_number |-> model.components[k].part_number,
                       quantity |-> model.components[k].quantity,
                       price_usd |-> model.components[k].pricing.usd,
                       price_eur |-> model.components[k].pricing.eur]]]

\* One api_model (l.312-327).
ApiModel(model, t) ==
    [id |-> model.id,
     lot_description |-> model.description,
     model_name |-> model.model_name,
     model_number |-> model.part_number,
     category |-> "Server",
     form_factor |-> "Rack",
     vendor |-> "Lenovo",
     processor_info |-> ExtractProcessorInfo(model.components),
     ram_info |-> ExtractMemoryInfo(model.components),
     network_info |-> ExtractNetworkInfo(model.components),
     price_5yr_psp |-> model.pricing.usd,
     all_prices |-> model.pricing,
     quotation_date |-> t,
     full_configurations |-> Configurations(model)]

\* generate_api_payload on the models of a parse that returned some.
GenerateApiPayload ==
    /\ pc = "done"
    /\ outcome = "ok"
    /\ returned # <<>>
    /\ api_models' = [k \in 1..Len(returned) |-> ApiModel(returned[k], now)]
    /\ pc' = "payload"
    /\ UNCHANGED <<df, idx, now, corrected_models, current_server, returned,
                   first_run, run, enhancedVars, leafVars, parVars, routerVars,
                   protoVars, pipelineVars, reportVars>>

NextPayload == NextEnhanced \/ GenerateApiPayload

SpecPayload == InitEnhanced /\ [][NextPayload]_vars

\* The description of the first configuration of the given type, "" if none.
FirstOfType(m, t) ==
    LET Mine(c) == c.item_type = t
        mine == SelectSeq(m.full_configurations, Mine)
    IN  IF mine = <<>> THEN "" ELSE mine[1].description

\* C23: the three summaries of a model are first-match-wins: each is the
\* description of the first component of its type in row order, empty when
\* the model has none, and is never extended by a later component.
C23_SummariesAreFirstMatch ==
    \A k \in 1..Len(api_models) :
        /\ api_models[k].processor_info = FirstOfType(api_models[k], "processor")
        /\ api_models[k].ram_info = FirstOfType(api_models[k], "memory")
        /\ api_models[k].network_info = FirstOfType(api_models[k], "network")

-----------------------------------------------------------------------------
(* Blank rows in parse_lenovo_correctly.                                    *)

\* The cell shows nothing: it is empty or holds white space only.
ShowsNothing(cell) == Strip(CellStr(cell)) = ""

\* The row has neither a part number nor a description, whatever else it has.
BlankCells(row) ==
    ShowsNothing(Iloc(row, part_col)) /\ ShowsNothing(Iloc(row, desc_col))

\* C24: a row whose part number and description are both empty or white
\* space is blank whatever its other cells hold, a price included: the row
\* loop passes it without changing the finished models or the model in
\* progress and without returning.  A component row that comes right after
\* such a separator still joins the model of the most recent lot.
C24_BlankRowChangesNothing ==
    [][(pc = "corrected" /\ idx < Len(df) /\ idx' = idx + 1) =>
          /\ BlankCells(Row(df, idx)) =>
                /\ corrected_models' = corrected_models
                /\ current_server' = current_server
                /\ returned' = returned
                /\ pc' = pc
          /\ ( /\ idx > HeaderRowFixed + 1
               /\ BlankCells(Row(df, idx - 1))
               /\ ~BlankCells(Row(df, idx))
               /\ current_server # <<>>
               /\ ~IsLotRow(idx) ) =>
                /\ corrected_models' = corrected_models
                /\ current_server'[1].id = current_server[1].id
                /\ Len(current_server'[1].full_configurations) =
                      Len(current_server[1].full_configurations) + 1
                /\ current_server'[1].full_configurations[
                      Len(current_server'[1].full_configurations)].description =
                      RowDesc(idx)
      ]_vars

\* A priced separator row was passed inside a lot and the component after it
\* joined the model of that lot.
C24_Witness ==
    /\ pc = "corrected"
    /\ idx > HeaderRowFixed + 3
    /\ IsLotRow(idx - 3)
    /\ Row(df, idx - 2) = SeparatorRow
    /\ Row(df, idx - 1) = CpuRow
    /\ current_server # <<>>
    /\ corrected_models = <<>>
    /\ Len(current_server[1].full_configurations) = 1
    /\ current_server[1].full_configurations[1].description = RowDesc(idx - 1)

-----------------------------------------------------------------------------
(* Priced component rows in parse_lenovo_server_lots.                       *)

\* The row at the loop index is not blank, gives no server signal and holds
\* a number in a price column.
PricedPlainRow ==
    LET row == Row(df, idx)
        part_number == Strip(CellStr(Iloc(row, analysis.part_col)))
        description == Strip(CellStr(Iloc(row, analysis.desc_col)))
    IN  /\ part_number # "" \/ description # ""
        /\ ~IsServerModelEntry(part_number, description)
        /\ \E c \in analysis.usd_price_cols \cup analysis.eur_price_cols :
               c < Len(row) /\ Iloc(row, c).num /\ Iloc(row, c).n > 0

\* C25: a row that is not blank and has a numeric price but no server
\* signal is a component line: it starts no model, it is appended to the
\* components of the model in progress, and its price is ignored, stored
\* neither on the component nor on the model.
C25_PricedComponentKeepsNoPrice ==
    [][( /\ pc = "enh_loop"
         /\ idx < Len(df)
         /\ analysis.part_col # -1
         /\ analysis.desc_col # -1
         /\ current_model # <<>>
         /\ PricedPlainRow ) =>
          LET before == current_model[1]
              after == current_model'[1]
              n == Len(after.components)
          IN  /\ models' = models
              /\ current_model' # <<>>
              /\ after.id = before.id
              /\ after.pricing = before.pricing
              /\ n = Len(before.components) + 1
              /\ SubSeq(after.components, 1, n - 1) = before.components
              /\ after.components[n].description =
                    Strip(CellStr(Iloc(Row(df, idx), analysis.desc_col)))
              /\ after.components[n].pricing = [usd |-> NoFloat, eur |-> NoFloat]
      ]_vars

-----------------------------------------------------------------------------
(* Finished models of parse_lenovo_correctly.                               *)

\* s is the beginning of t.
IsPrefix(s, t) == Len(s) <= Len(t) /\ SubSeq(t, 1, Len(s)) = s

\* C26: once a model is finished, no later row changes any of its fields or
\* its list of components: every step of the parse keeps the finished models
\* as they are, in place, and the list returned begins with them.
C26_FinishedModelsAreFrozen ==
    [][/\ IsPrefix(corrected_models, corrected_models')
       /\ (pc' = "done" => IsPrefix(corrected_models, returned'))]_vars

\* A model was finished by the next lot row, and a component row after that
\* went to the new model.
C26_Witness ==
    /\ pc = "corrected"
    /\ Len(corrected_models) = 1
    /\ corrected_models[1].id = "lenovo_server_1"
    /\ corrected_models[1].full_configurations = <<>>
    /\ current_server # <<>>
    /\ Len(current_server[1].full_configurations) = 1

-----------------------------------------------------------------------------
(* IntegratedBasketPipeline.run_complete_pipeline, step 4: each enhanced    *)
(* item is matched with one of the models the backend returned.  A key that *)
(* a dict lacks reads as '' (".get(key, '')").  The update of the matched   *)
(* model is a request to the backend and is left out.                       *)

MaxBackendModels == 3
MaxEnhancedItems == 2

\* "enhanced_part and backend_part and enhanced_part == backend_part"
PartNumbersMatch(enhanced_item, backend_model) ==
    LET enhanced_part == Lower(enhanced_item.part_number)
        backend_part == Lower(backend_model.part_number)
    IN  enhanced_part # "" /\ backend_part # "" /\ enhanced_part = backend_part

\* "enhanced_desc and backend_desc and (enhanced_desc in backend_desc or
\* backend_desc in enhanced_desc)"
DescriptionsMatch(enhanced_item, backend_model) ==
    LET enhanced_desc == Lower(enhanced_item.description)
        backend_desc == Lower(backend_model.description)
    IN  /\ enhanced_desc # ""
        /\ backend_desc # ""
        /\ \/ Contains(backend_desc, enhanced_desc)
           \/ Contains(enhanced_desc, backend_desc)

\* "for backend_model in backend_models": the first model that passes either
\* test ends the loop; <<>> is None.
RECURSIVE MatchFrom(_, _, _)
MatchFrom(enhanced_item, bms, k) ==
    IF k > Len(bms) THEN <<>>
    ELSE IF PartNumbersMatch(enhanced_item, bms[k]) THEN <<bms[k]>>
    ELSE IF DescriptionsMatch(enhanced_item, bms[k]) THEN <<bms[k]>>
    ELSE MatchFrom(enhanced_item, bms, k + 1)

MatchedModel(enhanced_item, bms) == MatchFrom(enhanced_item, bms, 1)

\* One iteration of "for enhanced_item in enhanced_items" (l.156-183).
MatchItem ==
    /\ pc = "match"
    /\ backend_models # <<>>
    /\ Len(matched) < Len(enhanced_items)
    /\ matched' = Append(matched,
                         MatchedModel(enhanced_items[Len(matched) + 1],
                                      backend_models))
    /\ UNCHANGED <<df, idx, pc, now, corrected_models, current_server, returned,
                   first_run, run, enhancedVars, leafVars, parVars, routerVars,
                   enhanced_items, backend_models, protoVars, reportVars,
                   payloadVars>>

\* After the loop the pipeline goes on to its validation step.
MatchDone ==
    /\ pc = "match"
    /\ backend_models = <<>> \/ Len(matched) = Len(enhanced_items)
    /\ pc' = "done"
    /\ UNCHANGED <<df, idx, now, corrected_models, current_server, returned,
                   first_run, run, enhancedVars, leafVars, parVars, routerVars,
                   otherVars>>

\* The enriched items and the backend models the matching is run on.
EnhancedItemInputs ==
    {[description |-> "Intel Xeon Silver 4410T", part_number |-> "BPQA"],
     [description |-> "16GB TruDDR5", part_number |-> ""],
     [description |-> "", part_number |-> "7D73CTO1WW"]}

BackendModelInputs ==
    {[id |-> "hardware_model:1", part_number |-> "",
      description |-> "Intel Xeon Silver 4410T 10C 150W 2.7GHz"],
     [id |-> "hardware_model:2", part_number |-> "bpqa",
      description |-> "Processor option"],
     [id |-> "hardware_model:3", part_number |-> "BNF9",
      description |-> "16GB TruDDR5 4800MHz RDIMM"],
     [id |-> "hardware_model:4", part_number |-> "7d73cto1ww",
      description |-> ""]}

InitPipeline ==
    /\ enhanced_items \in
          UNION {[1..n -> EnhancedItemInputs] : n \in 1..MaxEnhancedItems}
    /\ backend_models \in
          UNION {[1..n -> BackendModelInputs] : n \in 0..MaxBackendModels}
    /\ matched = <<>>
    /\ pc = "match"
    /\ df = <<>>
    /\ idx = 0
    /\ corrected_models = <<>>
    /\ current_server = <<>>
    /\ returned = <<>>
    /\ first_run = <<>>
    /\ run = 1
    /\ now = 0
    /\ IdleEnhanced
    /\ IdleLeaf
    /\ IdlePar
    /\ IdleRouter
    /\ IdleProto
    /\ IdleReport
    /\ IdlePayload

NextPipeline == MatchItem \/ MatchDone

SpecPipeline == InitPipeline /\ [][NextPipeline]_vars

\* Some backend model has the non-empty part number of the item.
HasPartMatch(enhanced_item) ==
    \E k \in 1..Len(backend_models) :
        PartNumbersMatch(enhanced_item, backend_models[k])

\* C27: an item is matched by part number first: whenever some backend model
\* has the same non-empty part number, the model selected is one with that
\* part number, even if a model earlier in the list matches by description
\* only; a description match is used only when no model matches by part
\* number.
C27_PartNumberMatchFirst ==
    \A j \in 1..Len(matched) :
        LET enhanced_item == enhanced_items[j]
        IN  IF HasPartMatch(enhanced_item)
            THEN /\ matched[j] # <<>>
                 /\ PartNumbersMatch(enhanced_item, matched[j][1])
            ELSE \/ matched[j] = <<>>
                 \/ DescriptionsMatch(enhanced_item, matched[j][1])

-----------------------------------------------------------------------------
(* Identifiers given by parse_lenovo_correctly.                             *)

\* The ids of all the configurations of the models built so far.
ConfigIds ==
    [k \in 1..Len(Emitted) |->
        [j \in 1..Len(Emitted[k].full_configurations) |->
            Emitted[k].full_configurations[j].id]]

\* C28: within one parse the ids are unique: the k-th model has the id
\* lenovo_server_k, and the j-th component of a model, counted from 0, has
\* the id config_<id of the model>_j.
C28_IdsFollowPosition ==
    /\ \A k \in 1..Len(Emitted) :
          /\ Emitted[k].id = "lenovo_server_" \o ToString(k)
          /\ \A j \in 1..Len(ConfigIds[k]) :
                ConfigIds[k][j] =
                    "config_" \o Emitted[k].id \o "_" \o ToString(j - 1)
    /\ \A k1, k2 \in 1..Len(Emitted) :
          /\ Emitted[k1].id = Emitted[k2].id => k1 = k2
          /\ \A j1 \in 1..Len(ConfigIds[k1]), j2 \in 1..Len(ConfigIds[k2]) :
                ConfigIds[k1][j1] = ConfigIds[k2][j2] => (k1 = k2 /\ j1 = j2)

\* The parse returned two models and the second one holds a component.
C28_Witness ==
    /\ pc = "done"
    /\ Len(returned) = 2
    /\ returned[2].id = "lenovo_server_2"
    /\ Len(returned[2].full_configurations) = 1
    /\ returned[2].full_configurations[1].id = "config_lenovo_server_2_0"

-----------------------------------------------------------------------------
(* ComprehensiveBasketEnricher.analyze_field_completeness.  A value of an   *)
(* item is None (also when the key is missing: ".get(key)"), a string, a    *)
(* number in hundredths or a dict, of which only the size matters.  The id  *)
(* of an item is the text at item['id']['id']['String'], '' when the item   *)
(* has none.  A percentage is kept in hundredths of a percent.              *)

MaxItems == 3

JsonNone == [kind |-> "none", n |-> 0, s |-> ""]
JsonStr(t) == [kind |-> "str", n |-> 0, s |-> t]
JsonNum(n) == [kind |-> "num", n |-> n, s |-> ""]
JsonDict(size) == [kind |-> "dict", n |-> size, s |-> ""]

\* "if field_value": None, '', 0 and {} are false.
JsonTruthy(v) ==
    CASE v.kind = "none" -> FALSE
      [] v.kind = "str" -> v.s # ""
      [] v.kind = "num" -> v.n # 0
      [] v.kind = "dict" -> v.n > 0

key_fields == <<"description", "type", "category", "price", "specifications">>

price_fields ==
    <<"price", "unit_price_usd", "unit_price_eur", "list_price_usd",
      "net_price_usd">>

\* "for pf in price_fields": the loop stops at the first value that is set
\* and is not 'N/A'; when none is, the value read last stays.
RECURSIVE PriceFieldValue(_, _)
PriceFieldValue(item_, k) ==
    LET field_value == item_[price_fields[k]]
    IN  IF k = Len(price_fields) THEN field_value
        ELSE IF JsonTruthy(field_value) /\ field_value # JsonStr("N/A")
        THEN field_value
        ELSE PriceFieldValue(item_, k + 1)

\* "Handle different field locations" (l.140-151).
FieldValue(item_, field) ==
    IF field = "price" THEN PriceFieldValue(item_, 1)
    ELSE IF field = "specifications"
    THEN IF JsonTruthy(item_.base_specifications)
         THEN item_.base_specifications
         ELSE item_.specifications
    ELSE item_[field]

\* The tally were the inner "else" of l.161-162 missing: a value that is set
\* but of no counted shape is put in neither pile.
FieldTallyWithoutElse(field_value) ==
    IF JsonTruthy(field_value)
       /\ field_value \notin {JsonStr("N/A"), JsonStr("Unknown")}
    THEN IF field_value.kind = "dict" THEN "filled"
         ELSE IF field_value.kind = "str" /\ Strip(field_value.s) # ""
         THEN "filled"
         ELSE IF field_value.kind = "num" /\ field_value.n > 0 THEN "filled"
         ELSE "neither"
    ELSE "missing"

\* "Check if field has meaningful value" (l.153-164): the item is counted
\* as filled or its id goes to missing_items.
FieldTally(field_value) ==
    IF JsonTruthy(field_value)
       /\ field_value \notin {JsonStr("N/A"), JsonStr("Unknown")}
    THEN IF field_value.kind = "dict" THEN "filled"
         ELSE IF field_value.kind = "str" /\ Strip(field_value.s) # ""
         THEN "filled"
         ELSE IF field_value.kind = "num" /\ field_value.n > 0 THEN "filled"
         ELSE "missing"
    ELSE "missing"

\* item.get('id', {}).get('id', {}).get('String', 'unknown')
ItemId(item_) == IF item_.id = "" THEN "unknown" ELSE item_.id

\* FieldStatus of one field over the items (l.133-174).
FieldStatusOf(field, its) ==
    LET Filled(i) == FieldTally(FieldValue(i, field)) = "filled"
        Missing(i) == FieldTally(FieldValue(i, field)) = "missing"
        filled_count == Len(SelectSeq(its, Filled))
        missing == SelectSeq(its, Missing)
        total_items == Len(its)
    IN  [name |-> field,
         filled |-> filled_count,
         total |-> total_items,
         percentage |-> IF total_items > 0
                        THEN (filled_count * 10000) \div total_items
                        ELSE 0,
         missing_items |-> [k \in 1..Len(missing) |-> ItemId(missing[k])]]

\* The dict returned: {} for no items, else one FieldStatus per key field.
FieldCompleteness(its) ==
    IF its = <<>> THEN EmptyDict
    ELSE [f \in {key_fields[k] : k \in 1..Len(key_fields)} |->
             FieldStatusOf(f, its)]

\* A call of analyze_field_completeness(items).
AnalyzeFieldCompleteness ==
    /\ pc = "report"
    /\ field_stats = <<>>
    /\ field_stats' = <<FieldCompleteness(items)>>
    /\ pc' = "done"
    /\ UNCHANGED <<df, idx, now, corrected_models, current_server, returned,
                   first_run, run, enhancedVars, leafVars, parVars, routerVars,
                   items, protoVars, pipelineVars, payloadVars>>

\* The items of a basket as the backend returns them.
BlankItem ==
    [id |-> "", description |-> JsonNone, type |-> JsonNone,
     category |-> JsonNone, price |-> JsonNone, unit_price_usd |-> JsonNone,
     unit_price_eur |-> JsonNone, list_price_usd |-> JsonNone,
     net_price_usd |-> JsonNone, base_specifications |-> JsonNone,
     specifications |-> JsonNone]

ReportItemInputs ==
    {[BlankItem EXCEPT !.id = "hardware_model:1",
                       !.description = JsonStr("Intel Xeon Silver 4410T"),
                       !.type = JsonStr("processor"),
                       !.category = JsonStr("Component"),
                       !.price = JsonNum(45000),
                       !.base_specifications = JsonDict(2)],
     [BlankItem EXCEPT !.id = "hardware_model:2",
                       !.description = JsonStr("  "),
                       !.type = JsonStr("Unknown"),
                       !.category = JsonStr("N/A"),
                       !.price = JsonStr("N/A"),
                       !.list_price_usd = JsonNum(12000),
                       !.base_specifications = JsonDict(0),
                       !.specifications = JsonDict(1)],
     [BlankItem EXCEPT !.description = JsonStr("Performance Fan"),
                       !.type = JsonStr(""),
                       !.price = JsonNum(-500),
                       !.specifications = JsonDict(0)],
     [BlankItem EXCEPT !.id = "hardware_model:4",
                       !.description = JsonNum(0),
                       !.category = JsonStr("Server"),
                       !.unit_price_usd = JsonStr("N/A"),
                       !.net_price_usd = JsonStr("N/A")]}

InitReport ==
    /\ items \in UNION {[1..n -> ReportItemInputs] : n \in 0..MaxItems}
    /\ field_stats = <<>>
    /\ pc = "report"
    /\ df = <<>>
    /\ idx = 0
    /\ corrected_models = <<>>
    /\ current_server = <<>>
    /\ returned = <<>>
    /\ first_run = <<>>
    /\ run = 1
    /\ now = 0
    /\ IdleEnhanced
    /\ IdleLeaf
    /\ IdlePar
    /\ IdleRouter
    /\ IdleProto
    /\ IdlePipeline
    /\ IdlePayload

NextReport == AnalyzeFieldCompleteness

SpecReport == InitReport /\ [][NextReport]_vars

\* The report of the call that returned.
Report == field_stats[1]

\* C29: for every key field the analysis counts each item exactly once:
\* filled plus the length of missing_items is total, total is the number of
\* items, filled lies between 0 and total and the percentage is filled over
\* total times 100.  For no items the report is empty and nothing is
\* divided.  The call leaves the items as they were.
C29_EachItemCountedOnce ==
    /\ [](field_stats # <<>> =>
            IF items = <<>> THEN Report = EmptyDict
            ELSE /\ DOMAIN Report = {key_fields[k] : k \in 1..Len(key_fields)}
                 /\ \A f \in DOMAIN Report :
                       /\ Report[f].name = f
                       /\ Report[f].total = Len(items)
                       /\ Report[f].filled + Len(Report[f].missing_items)
                             = Report[f].total
                       /\ Report[f].filled >= 0
                       /\ Report[f].filled <= Report[f].total
                       /\ Report[f].percentage
                             = (Report[f].filled * 10000) \div Report[f].total)
    /\ [][items' = items]_vars

\* A report on three items in which a field is filled for some and missing
\* for others.
C29_Witness ==
    /\ field_stats # <<>>
    /\ Len(items) = 3
    /\ Report["price"].filled = 2
    /\ Len(Report["price"].missing_items) = 1
    /\ Report["description"].filled = 1

-----------------------------------------------------------------------------
(* components_summary of a model of parse_lenovo_correctly.                 *)

Buckets == {"processor", "memory", "storage", "network", "other"}

\* The descriptions of the configurations of m of type t, in row order.
OfType(m, t) ==
    LET Mine(c) == c.item_type = t
        mine == SelectSeq(m.full_configurations, Mine)
    IN  [j \in 1..Len(mine) |-> mine[j].description]

\* The number of descriptions filed in the buckets bs of m.
RECURSIVE Filed(_, _)
Filed(m, bs) ==
    IF bs = {} THEN 0
    ELSE LET t == CHOOSE x \in bs : TRUE
         IN  Len(m.components_summary[t]) + Filed(m, bs \ {t})

\* C30: components_summary splits the configurations of a model into the
\* five buckets processor, memory, storage, network and other by item_type:
\* every configuration is in the bucket of its type and in no other, each
\* bucket keeps the row order, and the sizes of the buckets add up to the
\* number of configurations.
C30_SummaryPartitionsConfigurations ==
    \A k \in 1..Len(Emitted) :
        LET m == Emitted[k]
        IN  /\ DOMAIN m.components_summary = Buckets
            /\ \A j \in 1..Len(m.full_configurations) :
                  m.full_configurations[j].item_type \in Buckets
            /\ \A t \in Buckets : m.components_summary[t] = OfType(m, t)
            /\ Filed(m, Buckets) = Len(m.full_configurations)

\* A returned model with a processor and a component of no named type.
C30_Witness ==
    /\ pc = "done"
    /\ \E k \in 1..Len(returned) :
          /\ Len(returned[k].full_configurations) = 2
          /\ Len(returned[k].components_summary["processor"]) = 1
          /\ Len(returned[k].components_summary["other"]) = 1

=============================================================================
